---------------------------- MODULE Spec2Model ----------------------------
(***************************************************************************)
(* binary_io: fixed-width integral values read from and written to byte    *)
(* streams (span, memory, file, any_stream) with an explicit byte order.   *)
(*                                                                         *)
(* A byte takes the values 0 .. ByteBase-1 (256 in the program); a value   *)
(* of width W is a number in 0 .. ByteBase^W - 1, its bit pattern read as  *)
(* an unsigned integer.                                                    *)
(***************************************************************************)
EXTENDS Integers, Sequences, FiniteSets, TLC

VARIABLES
    native,   \* std::endian::native of the platform the library is built for
    codec,    \* the endian codec under test: operation done, inputs, results
    wrap,     \* "direct": the stream is used as itself; "any_istream" /
              \* "any_ostream": it is the stream held by that wrapper
    kind,     \* the class of the stream; "none" for a wrapper holding nothing
    fmode,    \* the fopen mode of a file stream ("rb", "wb", "ab"), else "-"
    pos,      \* the cursor: basic_seek_stream::_pos, or the FILE's position
    buf,      \* the storage: the bytes of the span, the container or the file
    last,     \* the last operation: its arguments, its outcome, and the
              \* cursor and storage it started from
    rt,       \* a write of typed values followed by a read of the same types:
              \* how far it has got, its arguments and the values read
    endian,   \* basic_format_stream::_endian, the stream's default byte order
    typed,    \* the last read or write of typed values: its arguments, its
              \* outcome, and what the stream was before it
    any,      \* any_stream_base: the pointer _stream, the erased streams that
              \* are alive, how far an emplace has got and the last call
    files     \* file_stream_base objects and the handles fopen has returned

vars == <<native, codec, wrap, kind, fmode, pos, buf, last, rt, endian, typed,
          any, files>>

\* what the calls on one stream leave alone: the stream's format state
fmtVars == <<endian, typed>>

\* ... and who owns which stream or handle
ownVars == <<any, files>>

streamVars == <<wrap, kind, fmode, pos, buf, last, rt, fmtVars, ownVars>>

(***************************************************************************)
(* Bounds                                                                  *)
(***************************************************************************)
\* number of values a byte can take in the model
ByteBase == 2

\* longest storage a stream is constructed over
MaxSize == 2

\* largest cursor a seek, a read or a write may leave behind
MaxPos == 3

\* longest destination or source buffer of a read_bytes or write_bytes
MaxCount == 2

\* most values in one batched write or read
MaxBatch == 2

\* largest cursor a typed write starts at
MaxStart == 1

\* most erased streams one wrapper constructs in a run
MaxObjects == 3

\* file streams alive at a time, and handles fopen gives in one run
MaxStreams == 2

MaxHandles == 3

\* number of values of std::size_t (2^64 in the program): sums of unsigned
\* values wrap around at SizeMod
SizeMod == 64

(***************************************************************************)
(* Endian codec (common.hpp)                                               *)
(***************************************************************************)
Orders == {"little", "big"}

\* sizeof(T) of the accepted integral types
Widths == {1, 2, 4, 8}

Bytes == 0 .. (ByteBase - 1)

RECURSIVE Pow(_, _)
Pow(b, e) == IF e = 0 THEN 1 ELSE b * Pow(b, e - 1)

Values(W) == 0 .. (Pow(ByteBase, W) - 1)

\* the object representation of a value: what memcpy(dst, &a_value, sizeof(T))
\* copies out, least significant byte at the lowest address on a little-endian
\* platform and most significant byte there on a big-endian one
ObjectRep(v, W) ==
    IF native = "little"
    THEN [i \in 1..W |-> (v \div Pow(ByteBase, i - 1)) % ByteBase]
    ELSE [i \in 1..W |-> (v \div Pow(ByteBase, W - i)) % ByteBase]

RECURSIVE SumUp(_, _)
SumUp(f, n) == IF n = 0 THEN 0 ELSE f[n] + SumUp(f, n - 1)

\* the value whose object representation is src: memcpy(buf, src) and
\* *reinterpret_cast<const T*>(buf)
ObjectValue(src) ==
    LET W == Len(src)
        term == IF native = "little"
                THEN [i \in 1..W |-> src[i] * Pow(ByteBase, i - 1)]
                ELSE [i \in 1..W |-> src[i] * Pow(ByteBase, W - i)]
    IN SumUp(term, W)

\* __builtin_bswap16/32/64: the value with the order of its W bytes reversed
RECURSIVE BSWAP(_, _)
BSWAP(v, W) ==
    IF W = 1 THEN v
    ELSE (v % ByteBase) * Pow(ByteBase, W - 1) + BSWAP(v \div ByteBase, W - 1)

reverseNoSwap(a_value, W) == a_value

reverse(a_value, W) ==
    CASE W = 1 -> a_value
      [] W = 2 -> BSWAP(a_value, 2)
      [] W = 4 -> BSWAP(a_value, 4)
      [] W = 8 -> BSWAP(a_value, 8)

loadNeverReverses(E, a_src) == ObjectValue(a_src)

load(E, a_src) ==
    LET val == ObjectValue(a_src)
    IN IF native # E THEN reverse(val, Len(a_src)) ELSE val

storeNeverReverses(E, a_value, W) == ObjectRep(a_value, W)

store(E, a_value, W) ==
    LET value == IF native # E THEN reverse(a_value, W) ELSE a_value
    IN ObjectRep(value, W)

\* binary_io::read / binary_io::write: the order as a run-time argument
read(a_src, a_endian) ==
    CASE a_endian = "little" -> load("little", a_src)
      [] a_endian = "big" -> load("big", a_src)

write(a_value, a_endian, W) ==
    CASE a_endian = "little" -> store("little", a_value, W)
      [] a_endian = "big" -> store("big", a_value, W)

(***************************************************************************)
(* Cursor (common.hpp, components::basic_seek_stream)                      *)
(***************************************************************************)
seek_absolute_unclamped(a_pos) == a_pos

\* this->_pos = std::max<streamoff>(a_pos, 0)
seek_absolute(a_pos) == IF a_pos > 0 THEN a_pos ELSE 0

seek_relative_from_start(p, a_off) == seek_absolute(a_off)

\* this->seek_absolute(this->_pos + a_off)
seek_relative(p, a_off) == seek_absolute(p + a_off)

\* largest value of binary_io::streamoff, a signed type as wide as std::size_t
StreamoffMax == (SizeMod - 1) \div 2

\* static_cast<binary_io::streamoff>(a_count)
ToStreamoff(a_count) ==
    IF a_count > StreamoffMax THEN a_count - SizeMod ELSE a_count

\* where + a_count: where (>= 0) is converted to the unsigned type and the sum
\* is taken modulo the number of its values
AddSize(where, a_count) == (where + a_count) % SizeMod

(***************************************************************************)
(* Raw reads and writes of the backends. Each operator gives the outcome   *)
(* of one call: the cursor and the storage after it, the exception thrown  *)
(* ("none" when it returns), the bytes copied into the destination and the *)
(* view returned by the no-copy variant.                                   *)
(***************************************************************************)
NoView == [off |-> 0, len |-> 0]

Result(p, b, e, d, v) == [pos |-> p, buf |-> b, err |-> e, dst |-> d, view |-> v]

\* the bytes a view of the storage shows
ViewBytes(buffer, view) == [i \in 1..view.len |-> buffer[view.off + i]]

OverwriteFromStart(buffer, where, a_src) ==
    [i \in 1..Len(buffer) |-> IF i <= Len(a_src) THEN a_src[i] ELSE buffer[i]]

\* std::memcpy(buffer.data() + where, a_src.data(), a_src.size_bytes())
Overwrite(buffer, where, a_src) ==
    [i \in 1..Len(buffer) |->
        IF where < i /\ i <= where + Len(a_src) THEN a_src[i - where] ELSE buffer[i]]

ResizeNoFill(buffer, n) == [i \in 1..n |-> IF i <= Len(buffer) THEN buffer[i] ELSE 1]

\* std::vector::resize(n): new elements are value-initialised (zero)
Resize(buffer, n) == [i \in 1..n |-> IF i <= Len(buffer) THEN buffer[i] ELSE 0]

span_istream_read_bytes_count(where, buffer, a_count) ==
    IF a_count = 0
    THEN Result(where, buffer, "none", <<>>, NoView)
    ELSE IF AddSize(where, a_count) > Len(buffer)
         THEN Result(where, buffer, "buffer_exhausted", <<>>, NoView)
         ELSE Result(seek_relative(where, ToStreamoff(a_count)), buffer, "none",
                     <<>>, [off |-> where, len |-> a_count])

span_istream_read_bytes(where, buffer, n) ==
    IF n = 0
    THEN Result(where, buffer, "none", <<>>, NoView)
    ELSE LET bytes == span_istream_read_bytes_count(where, buffer, n)
         IN IF bytes.err # "none" THEN bytes
            ELSE [bytes EXCEPT !.dst = ViewBytes(buffer, bytes.view),
                               !.view = NoView]

span_ostream_write_bytes_always_checks(where, buffer, a_src) ==
    IF AddSize(where, Len(a_src)) > Len(buffer)
    THEN Result(where, buffer, "buffer_exhausted", <<>>, NoView)
    ELSE Result(seek_relative(where, ToStreamoff(Len(a_src))),
                Overwrite(buffer, where, a_src), "none", <<>>, NoView)

span_ostream_write_bytes(where, buffer, a_src) ==
    IF a_src = <<>>
    THEN Result(where, buffer, "none", <<>>, NoView)
    ELSE IF AddSize(where, Len(a_src)) > Len(buffer)
         THEN Result(where, buffer, "buffer_exhausted", <<>>, NoView)
         ELSE Result(seek_relative(where, ToStreamoff(Len(a_src))),
                     Overwrite(buffer, where, a_src), "none", <<>>, NoView)

basic_memory_istream_read_bytes_count_off_by_one(where, buffer, a_count) ==
    IF AddSize(where, a_count) >= Len(buffer)
    THEN Result(where, buffer, "buffer_exhausted", <<>>, NoView)
    ELSE Result(seek_relative(where, ToStreamoff(a_count)), buffer, "none",
                <<>>, [off |-> where, len |-> a_count])

basic_memory_istream_read_bytes_count(where, buffer, a_count) ==
    IF AddSize(where, a_count) > Len(buffer)
    THEN Result(where, buffer, "buffer_exhausted", <<>>, NoView)
    ELSE Result(seek_relative(where, ToStreamoff(a_count)), buffer, "none",
                <<>>, [off |-> where, len |-> a_count])

basic_memory_istream_read_bytes(where, buffer, n) ==
    LET bytes == basic_memory_istream_read_bytes_count(where, buffer, n)
    IN IF bytes.err # "none" THEN bytes
       ELSE [bytes EXCEPT !.dst = ViewBytes(buffer, bytes.view),
                          !.view = NoView]

\* resizable: concepts::resizable<container_type>
basic_memory_ostream_write_bytes(where, buffer, a_src, resizable) ==
    LET wantsz == AddSize(where, Len(a_src))
    IN IF wantsz > Len(buffer) /\ ~resizable
       THEN Result(where, buffer, "buffer_exhausted", <<>>, NoView)
       ELSE LET grown == IF wantsz > Len(buffer)
                         THEN Resize(buffer, wantsz) ELSE buffer
            IN Result(seek_relative(where, ToStreamoff(Len(a_src))),
                      Overwrite(grown, where, a_src), "none", <<>>, NoView)

(***************************************************************************)
(* The file backend. The C library moves the FILE's position: fseek to a   *)
(* negative offset fails and leaves it; fread delivers the bytes there are *)
(* and advances past them; fwrite stores at the position, or at the end of *)
(* the file whatever the position is when the file was opened with "ab",   *)
(* zero-filling a gap past the old end.                                    *)
(***************************************************************************)
\* os::fseek(_buffer.get(), a_pos, SEEK_SET)
file_seek_absolute(p, a_pos) == IF a_pos < 0 THEN p ELSE a_pos

\* os::fseek(_buffer.get(), a_off, SEEK_CUR)
file_seek_relative(p, a_off) == IF p + a_off < 0 THEN p ELSE p + a_off

\* os::fread: the number of bytes delivered
os_fread(p, content, n) ==
    IF p >= Len(content) THEN 0
    ELSE IF n <= Len(content) - p THEN n ELSE Len(content) - p

file_istream_read_bytes(p, content, n) ==
    IF n = 0
    THEN Result(p, content, "none", <<>>, NoView)
    ELSE LET got == os_fread(p, content, n)
         IN Result(p + got, content,
                   IF got = n THEN "none" ELSE "buffer_exhausted",
                   SubSeq(content, p + 1, p + got), NoView)

\* what std::fwrite may return for n bytes: n, or fewer when the device has
\* no room for them (none of them, or all but the last)
Written(n) == {n} \cup {k \in {0, n - 1} : 0 <= k /\ k < n}

\* written: what std::fwrite returns
file_ostream_write_bytes(p, content, a_src, a_mode, written) ==
    IF a_src = <<>>
    THEN Result(p, content, "none", <<>>, NoView)
    ELSE LET at == IF a_mode = "ab" THEN Len(content) ELSE p
             end == IF at + written > Len(content)
                    THEN at + written ELSE Len(content)
         IN Result(at + written,
                   IF written = 0 THEN content
                   ELSE Overwrite(Resize(content, end), at, SubSeq(a_src, 1, written)),
                   IF written = Len(a_src) THEN "none" ELSE "buffer_exhausted",
                   <<>>, NoView)

(***************************************************************************)
(* Streams by class; a wrapper forwards to the stream it holds             *)
(* (any_stream.hpp, detail::erased_stream)                                 *)
(***************************************************************************)
InputKinds == {"span_istream", "memory_istream", "file_istream"}

\* "fixed_memory_ostream": basic_memory_ostream over a container without resize
OutputKinds == {"span_ostream", "memory_ostream", "fixed_memory_ostream",
                "file_ostream"}

FileKinds == {"file_istream", "file_ostream"}

\* the streams with the no-copy read_bytes(std::size_t)
NoCopyKinds == {"span_istream", "memory_istream"}

stream_seek_absolute(k, p, a_pos) ==
    IF k \in FileKinds THEN file_seek_absolute(p, a_pos) ELSE seek_absolute(a_pos)

stream_seek_relative(k, p, a_off) ==
    IF k \in FileKinds THEN file_seek_relative(p, a_off) ELSE seek_relative(p, a_off)

stream_read_bytes(k, p, b, n) ==
    CASE k = "span_istream" -> span_istream_read_bytes(p, b, n)
      [] k = "memory_istream" -> basic_memory_istream_read_bytes(p, b, n)
      [] k = "file_istream" -> file_istream_read_bytes(p, b, n)

stream_read_bytes_count(k, p, b, a_count) ==
    CASE k = "span_istream" -> span_istream_read_bytes_count(p, b, a_count)
      [] k = "memory_istream" -> basic_memory_istream_read_bytes_count(p, b, a_count)

stream_write_bytes(k, m, p, b, a_src, written) ==
    CASE k = "span_ostream" -> span_ostream_write_bytes(p, b, a_src)
      [] k = "memory_ostream" -> basic_memory_ostream_write_bytes(p, b, a_src, TRUE)
      [] k = "fixed_memory_ostream" -> basic_memory_ostream_write_bytes(p, b, a_src, FALSE)
      [] k = "file_ostream" -> file_ostream_write_bytes(p, b, a_src, m, written)

(***************************************************************************)
(* Batched reads and writes of typed values (common.hpp, istream_interface *)
(* and ostream_interface). A type is given by its width; an argument is a  *)
(* record [W |-> sizeof(T), v |-> the value].                              *)
(***************************************************************************)
\* constexpr auto size = (sizeof(Args) + ...), from a sequence of widths
RECURSIVE SizeOf(_)
SizeOf(a_types) ==
    IF a_types = <<>> THEN 0 ELSE Head(a_types) + SizeOf(Tail(a_types))

TypesOf(a_args) == [i \in 1..Len(a_args) |-> a_args[i].W]

ValuesOf(a_args) == [i \in 1..Len(a_args) |-> a_args[i].v]

\* the buffer ostream_interface::write fills: each argument encoded at the
\* offset where the one before it ends
RECURSIVE ostream_write_buffer(_, _)
ostream_write_buffer(a_endian, a_args) ==
    IF a_args = <<>> THEN <<>>
    ELSE write(Head(a_args).v, a_endian, Head(a_args).W)
            \o ostream_write_buffer(a_endian, Tail(a_args))

\* ostream_interface::write(a_endian, a_args...): one write_bytes of the buffer
ostream_write(k, m, p, b, a_endian, a_args, written) ==
    stream_write_bytes(k, m, p, b, ostream_write_buffer(a_endian, a_args), written)

\* istream_interface::do_read(a_bytes, a_endian, a_args...): each value decoded
\* from the sizeof(T) bytes at its offset
RECURSIVE do_read(_, _, _)
do_read(a_bytes, a_endian, a_types) ==
    IF a_types = <<>> THEN <<>>
    ELSE <<read(SubSeq(a_bytes, 1, Head(a_types)), a_endian)>>
            \o do_read(SubSeq(a_bytes, Head(a_types) + 1, Len(a_bytes)),
                       a_endian, Tail(a_types))

\* istream_interface::read(a_endian, a_args...): one raw read of size bytes,
\* the no-copy one when the stream has it, else into a local buffer; the
\* values are assigned only when the raw read returns
istream_read(w, k, p, b, a_endian, a_types) ==
    LET size == SizeOf(a_types)
        no_copy_input_stream == w = "direct" /\ k \in NoCopyKinds
        r == IF no_copy_input_stream
             THEN stream_read_bytes_count(k, p, b, size)
             ELSE stream_read_bytes(k, p, b, size)
        bytes == IF no_copy_input_stream THEN ViewBytes(b, r.view) ELSE r.dst
    IN [r |-> r,
        calls |-> <<size>>,
        values |-> IF r.err = "none" THEN do_read(bytes, a_endian, a_types)
                   ELSE <<>>]

istream_read_args_zeroed(w, k, p, b, a_endian, a_types, a_args) ==
    LET res == istream_read(w, k, p, b, a_endian, a_types)
    IN [res EXCEPT !.values = IF res.r.err = "none" THEN res.values
                              ELSE [i \in 1..Len(a_args) |-> 0]]

\* read(a_endian, a_args...) with the output variables a_args: they keep their
\* values when the raw read throws
istream_read_args(w, k, p, b, a_endian, a_types, a_args) ==
    LET res == istream_read(w, k, p, b, a_endian, a_types)
    IN [res EXCEPT !.values = IF res.r.err = "none" THEN res.values ELSE a_args]

\* write(a_endian, a_args...) with the lengths of the raw writes it issues
ostream_write_call(k, m, p, b, a_endian, a_args, written) ==
    [r |-> ostream_write(k, m, p, b, a_endian, a_args, written),
     calls |-> <<Len(ostream_write_buffer(a_endian, a_args))>>]

\* stream << v1 << ... << vn: operator<< is write(a_value), which is
\* write(endian(), a_value); an exception ends the chain. room: the bytes the
\* device of a file still takes
RECURSIVE chain_write(_, _, _, _, _, _, _)
chain_write(k, m, p, b, a_endian, a_args, room) ==
    IF a_args = <<>>
    THEN [r |-> Result(p, b, "none", <<>>, NoView), calls |-> <<>>]
    ELSE LET n == Head(a_args).W
             written == IF room < n THEN room ELSE n
             one == ostream_write_call(k, m, p, b, a_endian, <<Head(a_args)>>, written)
         IN IF one.r.err # "none" THEN one
            ELSE LET rest == chain_write(k, m, one.r.pos, one.r.buf, a_endian,
                                         Tail(a_args), room - written)
                 IN [r |-> rest.r, calls |-> one.calls \o rest.calls]

\* stream >> v1 >> ... >> vn: operator>> is std::tie(a_value) = read<T>(),
\* which is read<T>(endian()); an exception ends the chain and leaves the
\* variables not yet reached as they were
RECURSIVE chain_read(_, _, _, _, _, _, _)
chain_read(w, k, p, b, a_endian, a_types, a_args) ==
    IF a_types = <<>>
    THEN [r |-> Result(p, b, "none", <<>>, NoView), calls |-> <<>>, values |-> <<>>]
    ELSE LET one == istream_read_args(w, k, p, b, a_endian, <<Head(a_types)>>,
                                      <<Head(a_args)>>)
         IN IF one.r.err # "none"
            THEN [one EXCEPT !.values = a_args]
            ELSE LET rest == chain_read(w, k, one.r.pos, one.r.buf, a_endian,
                                        Tail(a_types), Tail(a_args))
                 IN [r |-> rest.r, calls |-> one.calls \o rest.calls,
                     values |-> one.values \o rest.values]

(***************************************************************************)
(* Streams under raw reads, writes and seeks                               *)
(***************************************************************************)
CodecIdle == [op |-> "idle", W |-> 1, O |-> "little", v |-> 0,
              bytes |-> <<>>, out |-> 0]

\* no typed read or write made yet
TypedIdle == [op |-> "idle"]

\* no wrapper under observation
AnyIdle == [pc |-> "none"]

\* no file stream under observation
FilesIdle == [pc |-> "none"]

\* the state of what a specification does not exercise
FormatIdle == endian = native /\ typed = TypedIdle

OwnershipIdle == any = AnyIdle /\ files = FilesIdle

RTIdle == [stage |-> "idle", O |-> "little", p |-> 0, mode |-> "-",
           args |-> <<>>, values |-> <<>>]

SeqsUpTo(S, n) == UNION {[1..k -> S] : k \in 0..n}

\* what an operation leaves in last
Done(op, n, a_src, r) ==
    [op |-> op, n |-> n, src |-> a_src, err |-> r.err, dst |-> r.dst,
     view |-> r.view, pos0 |-> pos, buf0 |-> buf]

Constructed ==
    [op |-> "construct", n |-> 0, src |-> <<>>, err |-> "none", dst |-> <<>>,
     view |-> NoView, pos0 |-> 0, buf0 |-> <<>>]

\* the process is alive: no earlier call has crashed it
Running == last.err # "crash"

\* the source buffers given to write_bytes: n consecutive byte values from b on
SrcPattern(b, n) == [i \in 1..n |-> (b + i - 1) % ByteBase]

Sources == {SrcPattern(b, n) : b \in Bytes, n \in 0..MaxCount}

\* the state after construction: a stream over some storage, used directly or
\* moved into a wrapper, or a default-constructed wrapper. A file opened with
\* "wb" is empty; one opened with "ab" starts at offset 0 or at its end,
\* as the C library chooses. Raw reads, writes and seeks never read the
\* platform's byte order, which is little-endian here.
StreamInit ==
    /\ native = "little"
    /\ FormatIdle
    /\ OwnershipIdle
    /\ codec = CodecIdle
    /\ rt = RTIdle
    /\ last = Constructed
    /\ \/ /\ kind \in InputKinds \cup OutputKinds
          /\ wrap \in {"direct",
                       IF kind \in InputKinds THEN "any_istream" ELSE "any_ostream"}
          /\ fmode \in CASE kind = "file_istream" -> {"rb"}
                         [] kind = "file_ostream" -> {"wb", "ab"}
                         [] OTHER -> {"-"}
          /\ buf \in IF fmode = "wb" THEN {<<>>} ELSE SeqsUpTo(Bytes, MaxSize)
          /\ pos \in IF fmode = "ab" THEN {0, Len(buf)} ELSE {0}
       \/ /\ kind = "none"
          /\ wrap \in {"any_istream", "any_ostream"}
          /\ fmode = "-"
          /\ buf = <<>>
          /\ pos = 0

\* seek_absolute(a_pos), on the stream or through the wrapper holding it
SeekAbsolute ==
    /\ Running
    /\ kind # "none"
    /\ \E a_pos \in (-1)..MaxPos :
         /\ pos' = stream_seek_absolute(kind, pos, a_pos)
         /\ last' = Done("seek_absolute", a_pos, <<>>,
                         Result(pos', buf, "none", <<>>, NoView))
    /\ UNCHANGED <<fmtVars, ownVars, native, codec, rt, wrap, kind, fmode, buf>>

\* seek_relative(a_off)
SeekRelative ==
    /\ Running
    /\ kind # "none"
    /\ \E a_off \in {-1, 1} :
         /\ stream_seek_relative(kind, pos, a_off) <= MaxPos
         /\ pos' = stream_seek_relative(kind, pos, a_off)
         /\ last' = Done("seek_relative", a_off, <<>>,
                         Result(pos', buf, "none", <<>>, NoView))
    /\ UNCHANGED <<fmtVars, ownVars, native, codec, rt, wrap, kind, fmode, buf>>

\* read_bytes(a_dst) with a destination of n bytes
ReadBytes ==
    /\ Running
    /\ kind \in InputKinds
    /\ \E n \in 0..MaxCount :
         LET r == stream_read_bytes(kind, pos, buf, n)
         IN /\ pos' = r.pos
            /\ buf' = r.buf
            /\ last' = Done("read_bytes", n, <<>>, r)
    /\ UNCHANGED <<fmtVars, ownVars, native, codec, rt, wrap, kind, fmode>>

\* the counts given to the no-copy read: short ones, and ones near the
\* largest value of std::size_t
Counts == (0..MaxCount) \cup ((SizeMod - MaxCount)..(SizeMod - 1))

\* read_bytes(a_count), the no-copy variant, which the wrappers do not have
ReadBytesCount ==
    /\ Running
    /\ wrap = "direct"
    /\ kind \in NoCopyKinds
    /\ \E a_count \in Counts :
         LET r == stream_read_bytes_count(kind, pos, buf, a_count)
         IN /\ r.pos <= MaxPos
            /\ pos' = r.pos
            /\ buf' = r.buf
            /\ last' = Done("read_bytes_count", a_count, <<>>, r)
    /\ UNCHANGED <<fmtVars, ownVars, native, codec, rt, wrap, kind, fmode>>

\* write_bytes(a_src)
WriteBytes ==
    /\ Running
    /\ kind \in OutputKinds
    /\ \E a_src \in Sources :
         \E written \in IF kind = "file_ostream" THEN Written(Len(a_src)) ELSE {Len(a_src)} :
            LET r == stream_write_bytes(kind, fmode, pos, buf, a_src, written)
            IN /\ r.pos <= MaxPos
               /\ pos' = r.pos
               /\ buf' = r.buf
               /\ last' = Done("write_bytes", Len(a_src), a_src, r)
    /\ UNCHANGED <<fmtVars, ownVars, native, codec, rt, wrap, kind, fmode>>

\* what calling through the null _stream of an empty wrapper may do: undefined
\* behaviour, which ends the process or goes unnoticed
NullDereference == {"crash", "none"}

\* any_istream::read_bytes(a_dst) on a wrapper that holds nothing
EmptyReadBytes ==
    /\ Running
    /\ kind = "none"
    /\ wrap = "any_istream"
    /\ \E n \in 0..MaxCount, outcome \in NullDereference :
         last' = Done("read_bytes", n, <<>>,
                      Result(pos, buf, outcome, <<>>, NoView))
    /\ UNCHANGED <<fmtVars, ownVars, native, codec, rt, wrap, kind, fmode, pos, buf>>

\* any_ostream::write_bytes(a_src) on a wrapper that holds nothing
EmptyWriteBytes ==
    /\ Running
    /\ kind = "none"
    /\ wrap = "any_ostream"
    /\ \E a_src \in Sources, outcome \in NullDereference :
         last' = Done("write_bytes", Len(a_src), a_src,
                      Result(pos, buf, outcome, <<>>, NoView))
    /\ UNCHANGED <<fmtVars, ownVars, native, codec, rt, wrap, kind, fmode, pos, buf>>

\* reset(): the wrapper destroys the stream it holds
Reset ==
    /\ Running
    /\ wrap # "direct"
    /\ kind' = "none"
    /\ fmode' = "-"
    /\ pos' = 0
    /\ buf' = <<>>
    /\ last' = Done("reset", 0, <<>>, Result(0, <<>>, "none", <<>>, NoView))
    /\ UNCHANGED <<fmtVars, ownVars, native, codec, rt, wrap>>

Next ==
    \/ SeekAbsolute
    \/ SeekRelative
    \/ ReadBytes
    \/ ReadBytesCount
    \/ WriteBytes
    \/ EmptyReadBytes
    \/ EmptyWriteBytes
    \/ Reset

Spec == StreamInit /\ [][Next]_vars

(***************************************************************************)
(* The codec applied to every value of every width                         *)
(***************************************************************************)
CodecInit ==
    /\ native \in Orders
    /\ FormatIdle
    /\ OwnershipIdle
    /\ \E W \in Widths, O \in Orders :
         \E v \in Values(W) :
            codec = [op |-> "value", W |-> W, O |-> O, v |-> v,
                     bytes |-> <<>>, out |-> 0]
    /\ wrap = "direct"
    /\ kind = "none"
    /\ fmode = "-"
    /\ pos = 0
    /\ buf = <<>>
    /\ last = Constructed
    /\ rt = RTIdle

\* write(v, O) into a buffer of sizeof(T) bytes
CodecWrite ==
    /\ codec.op = "value"
    /\ codec' = [codec EXCEPT !.op = "written",
                              !.bytes = write(codec.v, codec.O, codec.W)]
    /\ UNCHANGED <<native, streamVars>>

\* read<T>(bytes, O) from the buffer just written
CodecRead ==
    /\ codec.op = "written"
    /\ codec' = [codec EXCEPT !.op = "read",
                              !.out = read(codec.bytes, codec.O)]
    /\ UNCHANGED <<native, streamVars>>

\* reverse(v)
CodecReverse ==
    /\ codec.op = "value"
    /\ codec' = [codec EXCEPT !.op = "reversed",
                              !.out = reverse(codec.v, codec.W)]
    /\ UNCHANGED <<native, streamVars>>

\* reverse(reverse(v))
CodecReverseAgain ==
    /\ codec.op = "reversed"
    /\ codec' = [codec EXCEPT !.op = "reversed twice",
                              !.out = reverse(codec.out, codec.W)]
    /\ UNCHANGED <<native, streamVars>>

CodecNext == CodecWrite \/ CodecRead \/ CodecReverse \/ CodecReverseAgain

SpecCodec == CodecInit /\ [][CodecNext]_vars

(***************************************************************************)
(* A batch of typed values written at a position and read back from there  *)
(***************************************************************************)
\* a value of width W whose bytes, least significant first, count up from s
Sample(W, s) ==
    SumUp([i \in 1..W |-> ((s + i) % ByteBase) * Pow(ByteBase, i - 1)], W)

\* the type list of the library's own stream test: u8, u16, u32, u64
MixedWidths == <<1, 2, 4, 8>>

TypeLists == UNION {[1..k -> Widths] : k \in 1..MaxBatch} \cup {MixedWidths}

ArgLists ==
    {[i \in 1..Len(ts) |-> [W |-> ts[i], v |-> Sample(ts[i], s + i)]] :
        ts \in TypeLists, s \in Bytes}

\* storage of n bytes, none of them zero
Fill(n) == [i \in 1..n |-> 1]

\* the input stream that reads what an output stream has written
InputOf(k) ==
    CASE k = "span_ostream" -> "span_istream"
      [] k = "memory_ostream" -> "memory_istream"
      [] k = "file_ostream" -> "file_istream"

\* an output stream over an empty storage or over one that has room for the
\* batch at its position; the platform has either byte order
RTInit ==
    /\ native \in Orders
    /\ FormatIdle
    /\ OwnershipIdle
    /\ codec = CodecIdle
    /\ last = Constructed
    /\ kind \in {"span_ostream", "memory_ostream", "file_ostream"}
    /\ wrap \in {"direct", "any_ostream"}
    /\ fmode \in IF kind = "file_ostream" THEN {"wb", "ab"} ELSE {"-"}
    /\ \E O \in Orders, p \in 0..MaxStart, a_args \in ArgLists :
         /\ rt = [stage |-> "open", O |-> O, p |-> p, mode |-> fmode,
                  args |-> a_args, values |-> <<>>]
         /\ buf \in IF fmode = "wb" THEN {<<>>}
                    ELSE {<<>>, Fill(p + SizeOf(TypesOf(a_args)))}
    /\ pos \in IF fmode = "ab" THEN {0, Len(buf)} ELSE {0}

\* out.seek_absolute(p)
RTSeekOut ==
    /\ rt.stage = "open"
    /\ pos' = stream_seek_absolute(kind, pos, rt.p)
    /\ rt' = [rt EXCEPT !.stage = "sought"]
    /\ UNCHANGED <<fmtVars, ownVars, native, codec, last, wrap, kind, fmode, buf>>

\* out.write(O, args...)
RTWrite ==
    /\ rt.stage = "sought"
    /\ \E written \in IF kind = "file_ostream"
                      THEN Written(SizeOf(TypesOf(rt.args)))
                      ELSE {SizeOf(TypesOf(rt.args))} :
         LET r == ostream_write(kind, fmode, pos, buf, rt.O, rt.args, written)
         IN /\ pos' = r.pos
            /\ buf' = r.buf
            /\ rt' = [rt EXCEPT !.stage = IF r.err = "none" THEN "written"
                                          ELSE "write failed"]
    /\ UNCHANGED <<fmtVars, ownVars, native, codec, last, wrap, kind, fmode>>

\* an input stream of the same backend is constructed over the bytes the
\* output stream has left, and used directly or moved into a wrapper
RTOpenIn ==
    /\ rt.stage = "written"
    /\ kind' = InputOf(kind)
    /\ wrap' \in {"direct", "any_istream"}
    /\ fmode' = IF kind = "file_ostream" THEN "rb" ELSE "-"
    /\ pos' = 0
    /\ rt' = [rt EXCEPT !.stage = "reopened"]
    /\ UNCHANGED <<fmtVars, ownVars, native, codec, last, buf>>

\* in.seek_absolute(p)
RTSeekIn ==
    /\ rt.stage = "reopened"
    /\ pos' = stream_seek_absolute(kind, pos, rt.p)
    /\ rt' = [rt EXCEPT !.stage = "ready"]
    /\ UNCHANGED <<fmtVars, ownVars, native, codec, last, wrap, kind, fmode, buf>>

\* in.read(O, args...) with the types of the values written
RTRead ==
    /\ rt.stage = "ready"
    /\ LET res == istream_read(wrap, kind, pos, buf, rt.O, TypesOf(rt.args))
       IN /\ pos' = res.r.pos
          /\ buf' = res.r.buf
          /\ rt' = [rt EXCEPT !.stage = IF res.r.err = "none" THEN "read"
                                        ELSE "read failed",
                              !.values = res.values]
    /\ UNCHANGED <<fmtVars, ownVars, native, codec, last, wrap, kind, fmode>>

RTNext == RTSeekOut \/ RTWrite \/ RTOpenIn \/ RTSeekIn \/ RTRead

SpecRoundTrip == RTInit /\ [][RTNext]_vars

(***************************************************************************)
(* A stream under reads and writes of typed values, batched or chained,    *)
(* with the order given in the call or left to the stream's default        *)
(***************************************************************************)
\* the order a call is given: one of the two, or "-" when it is omitted
OrderArgs == Orders \cup {"-"}

OrderUsedNative(O) == IF O = "-" THEN native ELSE O

\* the order a call works with: a_endian, or this->endian()
OrderUsed(O) == IF O = "-" THEN endian ELSE O

\* the output variables of a read before it: all bits set
Unset(a_types) ==
    [i \in 1..Len(a_types) |-> [W |-> a_types[i], v |-> Pow(ByteBase, a_types[i]) - 1]]

\* storages of typed streams: empty, one byte, or as long as the cursor goes
TypedStorages == {SrcPattern(1, n) : n \in {0, 1, MaxPos}}

\* the type lists of the typed calls: the short ones of 1- and 2-byte types,
\* and some that do not fit the storages, alone or after a type that does
TypedTypeLists ==
    UNION {[1..k -> {1, 2}] : k \in 1..MaxBatch}
        \cup {<<4>>, <<1, 4>>, <<8>>, MixedWidths}

TypedArgLists ==
    {[i \in 1..Len(ts) |-> [W |-> ts[i], v |-> Sample(ts[i], i)]] :
        ts \in TypedTypeLists}

\* a run makes one typed call, after the seeks and the changes of the default
\* order that bring the stream to the state the call starts from
BeforeTypedCall == typed.op \in {"construct", "seek", "endian"}

\* what a call leaves in typed
TypedDone(op, O, a_args, res, a_values) ==
    [op |-> op, O |-> O, args |-> a_args, err |-> res.r.err,
     calls |-> res.calls, values |-> a_values,
     pos0 |-> pos, buf0 |-> buf, endian0 |-> endian]

NoCall == [r |-> Result(0, <<>>, "none", <<>>, NoView), calls |-> <<>>]

TypedInit ==
    /\ native \in Orders
    /\ endian = native
    /\ OwnershipIdle
    /\ codec = CodecIdle
    /\ rt = RTIdle
    /\ last = Constructed
    /\ kind \in InputKinds \cup OutputKinds
    /\ wrap \in {"direct",
                 IF kind \in InputKinds THEN "any_istream" ELSE "any_ostream"}
    /\ fmode \in CASE kind = "file_istream" -> {"rb"}
                   [] kind = "file_ostream" -> {"wb", "ab"}
                   [] OTHER -> {"-"}
    /\ buf \in IF fmode = "wb" THEN {<<>>} ELSE TypedStorages
    /\ pos \in IF fmode = "ab" THEN {0, Len(buf)} ELSE {0}
    /\ typed = [op |-> "construct", O |-> "-", args |-> <<>>, err |-> "none",
                calls |-> <<>>, values |-> <<>>, pos0 |-> 0, buf0 |-> <<>>,
                endian0 |-> native]

typedFrame == <<ownVars, native, codec, rt, last, wrap, kind, fmode>>

\* seek_absolute(a_pos)
TypedSeek ==
    /\ BeforeTypedCall
    /\ \E a_pos \in 0..MaxPos :
         /\ a_pos # pos
         /\ pos' = stream_seek_absolute(kind, pos, a_pos)
         /\ typed' = [TypedDone("seek", "-", <<>>, NoCall, <<>>)
                          EXCEPT !.pos0 = 0, !.buf0 = <<>>, !.endian0 = native]
    /\ UNCHANGED <<typedFrame, buf, endian>>

\* endian(o), stream >> o, stream << o
SetEndian ==
    /\ BeforeTypedCall
    /\ \E o \in Orders :
         /\ endian' = o
         /\ typed' = TypedDone("endian", o, <<>>, NoCall, <<>>)
    /\ UNCHANGED <<typedFrame, pos, buf>>

\* write(a_endian, a_args...) and write(a_args...)
TypedWrite ==
    /\ BeforeTypedCall
    /\ kind \in OutputKinds
    /\ \E a_args \in TypedArgLists, O \in OrderArgs :
         \E written \in IF kind = "file_ostream"
                        THEN Written(SizeOf(TypesOf(a_args)))
                        ELSE {SizeOf(TypesOf(a_args))} :
            LET res == ostream_write_call(kind, fmode, pos, buf, OrderUsed(O),
                                          a_args, written)
            IN /\ res.r.pos <= MaxPos
               /\ pos' = res.r.pos
               /\ buf' = res.r.buf
               /\ typed' = TypedDone("write", O, a_args, res, <<>>)
    /\ UNCHANGED <<typedFrame, endian>>

\* stream << o << v1 << ... << vn, and stream << v1 << ... << vn
ChainWrite ==
    /\ BeforeTypedCall
    /\ kind \in OutputKinds
    /\ \E a_args \in TypedArgLists, O \in OrderArgs :
         \E room \in IF kind = "file_ostream"
                     THEN Written(SizeOf(TypesOf(a_args)))
                     ELSE {SizeOf(TypesOf(a_args))} :
            LET res == chain_write(kind, fmode, pos, buf, OrderUsed(O), a_args, room)
            IN /\ res.r.pos <= MaxPos
               /\ endian' = OrderUsed(O)
               /\ pos' = res.r.pos
               /\ buf' = res.r.buf
               /\ typed' = TypedDone("chain write", O, a_args, res, <<>>)
    /\ UNCHANGED typedFrame

\* read(a_endian, a_args...) and read(a_args...)
TypedRead ==
    /\ BeforeTypedCall
    /\ kind \in InputKinds
    /\ \E a_types \in TypedTypeLists, O \in OrderArgs :
         LET res == istream_read_args(wrap, kind, pos, buf, OrderUsed(O),
                                      a_types, ValuesOf(Unset(a_types)))
         IN /\ pos' = res.r.pos
            /\ buf' = res.r.buf
            /\ typed' = TypedDone("read", O, Unset(a_types), res, res.values)
    /\ UNCHANGED <<typedFrame, endian>>

\* stream >> o >> v1 >> ... >> vn, and stream >> v1 >> ... >> vn
ChainRead ==
    /\ BeforeTypedCall
    /\ kind \in InputKinds
    /\ \E a_types \in TypedTypeLists, O \in OrderArgs :
         LET res == chain_read(wrap, kind, pos, buf, OrderUsed(O), a_types,
                               ValuesOf(Unset(a_types)))
         IN /\ endian' = OrderUsed(O)
            /\ pos' = res.r.pos
            /\ buf' = res.r.buf
            /\ typed' = TypedDone("chain read", O, Unset(a_types), res, res.values)
    /\ UNCHANGED typedFrame

TypedNext ==
    \/ TypedSeek
    \/ SetEndian
    \/ TypedWrite
    \/ ChainWrite
    \/ TypedRead
    \/ ChainRead

SpecTyped == TypedInit /\ [][TypedNext]_vars

(***************************************************************************)
(* The wrapper and the erased stream it owns (any_stream.hpp,              *)
(* components::any_stream_base). An erased stream is known by the number   *)
(* of its construction; 0 is the null pointer. objs maps each erased       *)
(* stream that is alive to the type and the cursor of the stream in it.    *)
(***************************************************************************)
\* the types S a call get<S>, get_if<S> or emplace<S> can name
HeldTypes(w) == IF w = "any_istream" THEN InputKinds ELSE OutputKinds

AskedTypes(w) == HeldTypes(w) \cup {w}

\* this->_stream != nullptr
has_value(p) == p # 0

\* dynamic_cast<StreamErased<S>*>(p): p when it points to a StreamErased<S>,
\* else the null pointer
dynamic_cast(p, objs, S) == IF p # 0 /\ objs[p].type = S THEN p ELSE 0

get_if_static_cast(p, objs, S) == p

\* get_if<S>(): the address of the stream in the erased stream, or nullptr
any_stream_base_get_if(p, objs, S) == dynamic_cast(p, objs, S)

\* dynamic_cast<StreamErased<S>&>(*this->_stream) with _stream null: the
\* assertion has_value() fails, or the null reference is cast, which ends the
\* process or throws std::bad_cast as the run-time library of the build does
NullCast == {"crash", "bad_cast"}

\* get<S>(): the outcomes, each the exception thrown and the stream returned
any_stream_base_get(p, objs, S) ==
    IF ~has_value(p)
    THEN {[err |-> e, ret |-> 0] : e \in NullCast}
    ELSE IF dynamic_cast(p, objs, S) # 0
         THEN {[err |-> "none", ret |-> dynamic_cast(p, objs, S)]}
         ELSE {[err |-> "bad_cast", ret |-> 0]}

unique_ptr_release(p, objs, q) == [stream |-> q, objs |-> objs]

\* std::unique_ptr::reset(q): q is stored and the object owned before deleted
unique_ptr_reset(p, objs, q) ==
    [stream |-> q, objs |-> [i \in (DOMAIN objs) \ {p} |-> objs[i]]]

\* what a call leaves in any.call
Called(op, S, e, ret) ==
    [op |-> op, S |-> S, err |-> e, ret |-> ret,
     stream0 |-> any.stream, objs0 |-> any.objs]

\* an erased stream freshly constructed around a stream of type S
Erased(S) == [type |-> S, pos |-> 0]

\* any_stream_base() = default, or the constructors that emplace a stream
WrapperInit ==
    /\ native = "little"
    /\ codec = CodecIdle
    /\ rt = RTIdle
    /\ last = Constructed
    /\ FormatIdle
    /\ files = FilesIdle
    /\ kind = "none"
    /\ fmode = "-"
    /\ pos = 0
    /\ buf = <<>>
    /\ wrap \in {"any_istream", "any_ostream"}
    /\ \/ any = [pc |-> "idle", stream |-> 0, objs |-> <<>>, made |-> 0,
                 new |-> 0,
                 call |-> [op |-> "construct", S |-> "-", err |-> "none",
                           ret |-> 0, stream0 |-> 0, objs0 |-> <<>>]]
       \/ \E S \in HeldTypes(wrap) :
            any = [pc |-> "idle", stream |-> 1, objs |-> <<Erased(S)>>,
                   made |-> 1, new |-> 0,
                   call |-> [op |-> "construct", S |-> S, err |-> "none",
                             ret |-> 0, stream0 |-> 0, objs0 |-> <<>>]]

\* between two calls on a wrapper of a process that is alive
WrapperIdle == any.pc = "idle" /\ any.call.err # "crash"

wrapperFrame == <<native, codec, wrap, kind, fmode, pos, buf, last, rt,
                  fmtVars, files>>

\* emplace<S>(args...), first half: std::make_unique<StreamErased<S>>(args...)
\* constructs the new erased stream while _stream still owns the old one
EmplaceMake ==
    /\ WrapperIdle
    /\ any.made < MaxObjects
    /\ \E S \in HeldTypes(wrap) :
         any' = [any EXCEPT !.pc = "emplace",
                            !.made = any.made + 1,
                            !.new = any.made + 1,
                            !.objs = [i \in (DOMAIN any.objs) \cup {any.made + 1} |->
                                        IF i = any.made + 1 THEN Erased(S)
                                        ELSE any.objs[i]],
                            !.call = Called("emplace", S, "none", 0)]
    /\ UNCHANGED wrapperFrame

\* emplace<S>(args...) whose stream cannot be constructed: the constructor of
\* a file stream throws std::system_error and _stream is not assigned
EmplaceThrow ==
    /\ WrapperIdle
    /\ \E S \in HeldTypes(wrap) \cap FileKinds :
         any' = [any EXCEPT !.call = Called("emplace", S, "system_error", 0)]
    /\ UNCHANGED wrapperFrame

\* emplace<S>(args...), second half: this->_stream = <the new erased stream>
EmplaceAssign ==
    /\ any.pc = "emplace"
    /\ LET u == unique_ptr_reset(any.stream, any.objs, any.new)
       IN any' = [any EXCEPT !.pc = "idle", !.new = 0,
                             !.stream = u.stream, !.objs = u.objs]
    /\ UNCHANGED wrapperFrame

\* reset()
WrapperReset ==
    /\ WrapperIdle
    /\ any.call.op # "reset"
    /\ LET u == unique_ptr_reset(any.stream, any.objs, 0)
       IN any' = [any EXCEPT !.stream = u.stream, !.objs = u.objs,
                             !.call = Called("reset", "-", "none", 0)]
    /\ UNCHANGED wrapperFrame

\* reset() of a wrapper that the call before has reset
WrapperResetAgain ==
    /\ WrapperIdle
    /\ any.call.op = "reset"
    /\ LET u == unique_ptr_reset(any.stream, any.objs, 0)
       IN any' = [any EXCEPT !.stream = u.stream, !.objs = u.objs,
                             !.call = Called("reset again", "-", "none", 0)]
    /\ UNCHANGED wrapperFrame

\* has_value()
HasValue ==
    /\ WrapperIdle
    /\ any' = [any EXCEPT !.call = Called("has_value", "-", "none",
                                          IF has_value(any.stream) THEN 1 ELSE 0)]
    /\ UNCHANGED wrapperFrame

\* get<S>()
Get ==
    /\ WrapperIdle
    /\ \E S \in AskedTypes(wrap) :
         \E r \in any_stream_base_get(any.stream, any.objs, S) :
            any' = [any EXCEPT !.call = Called("get", S, r.err, r.ret)]
    /\ UNCHANGED wrapperFrame

\* get_if<S>()
GetIf ==
    /\ WrapperIdle
    /\ \E S \in AskedTypes(wrap) :
         any' = [any EXCEPT !.call =
                    Called("get_if", S, "none",
                           any_stream_base_get_if(any.stream, any.objs, S))]
    /\ UNCHANGED wrapperFrame

\* seek_absolute(a_pos) through the wrapper: this->_stream->seek_absolute(a_pos)
WrapperSeek ==
    /\ WrapperIdle
    /\ has_value(any.stream)
    /\ \E a_pos \in 0..MaxStart :
         /\ a_pos # any.objs[any.stream].pos
         /\ any' = [any EXCEPT
                      !.objs[any.stream].pos =
                          stream_seek_absolute(any.objs[any.stream].type,
                                               any.objs[any.stream].pos, a_pos),
                      !.call = Called("seek_absolute", "-", "none", 0)]
    /\ UNCHANGED wrapperFrame

WrapperNext ==
    \/ EmplaceMake
    \/ EmplaceThrow
    \/ EmplaceAssign
    \/ WrapperReset
    \/ WrapperResetAgain
    \/ HasValue
    \/ Get
    \/ GetIf
    \/ WrapperSeek

SpecWrapper == WrapperInit /\ [][WrapperNext]_vars

(***************************************************************************)
(* File streams and the handles they own: std::unique_ptr<std::FILE,       *)
(* decltype(&fclose)> _buffer in file_stream_base.  A handle is a number   *)
(* from 1 on, in the order fopen returned them; 0 is the null pointer.     *)
(***************************************************************************)
Streams == 1..MaxStreams

\* rdbuf() != nullptr
is_open(b) == b # 0

\* the deleter of _buffer, called by unique_ptr on a pointer that is not
\* null: one more std::fclose of the handle
fclose(closes, h) ==
    IF h = 0 THEN closes ELSE [closes EXCEPT ![h] = closes[h] + 1]

\* std::unique_ptr::reset(q): q is stored and the handle owned before closed
buffer_reset(b, closes, q) == [buffer |-> q, closes |-> fclose(closes, b)]

buffer_release_keeps_pointer(b) == [ret |-> b, buffer |-> b]

\* std::unique_ptr::release(): the pointer is given away and null stored
buffer_release(b) == [ret |-> b, buffer |-> 0]

\* a file stream that is not alive, and one just default-constructed
NoStream == [alive |-> FALSE, buffer |-> 0]

ClosedStream == [alive |-> TRUE, buffer |-> 0]

\* the paths given to open: one that names a regular file or nothing, one
\* that names a directory, one whose status cannot be read
Paths == {"file", "dir", "lost"}

\* the file system: what the path "file" names, and the size of that file
NoFile == [type |-> "not_found", size |-> 0]

EmptyFile == [type |-> "regular", size |-> 0]

\* std::filesystem::status(a_path).type()
status(fs, a_path) ==
    CASE a_path = "file" -> fs.type
      [] a_path = "dir" -> "directory"
      [] a_path = "lost" -> "none"

\* os::fopen(a_path, a_mode): whether a handle is returned, and the file
\* system after the call. "rb" opens only a file that exists; "wb" creates
\* the file or empties it; "ab" creates it or leaves it. granted: the
\* operating system lets the file be opened.
fopen(fs, a_path, a_mode, granted) ==
    IF ~granted \/ status(fs, a_path) \notin {"not_found", "regular"}
       \/ (a_mode = "rb" /\ status(fs, a_path) = "not_found")
    THEN [opened |-> FALSE, fs |-> fs]
    ELSE [opened |-> TRUE,
          fs |-> IF a_mode = "wb" \/ fs.type = "not_found" THEN EmptyFile ELSE fs]

file_stream_base_open_without_status(b, closes, fs, a_path, a_mode, granted) ==
    LET f == fopen(fs, a_path, a_mode, TRUE)
        u == buffer_reset(b, Append(closes, 0), Len(closes) + 1)
    IN [buffer |-> u.buffer, closes |-> u.closes, fs |-> f.fs, err |-> "none"]

\* file_stream_base::open(a_path, a_mode) on a stream whose _buffer is b:
\* the exception thrown ("none" when it returns), _buffer, the closes of the
\* handles and the file system after the call
file_stream_base_open(b, closes, fs, a_path, a_mode, granted) ==
    IF status(fs, a_path) \notin {"not_found", "regular"}
    THEN [buffer |-> b, closes |-> closes, fs |-> fs, err |-> "system_error"]
    ELSE LET f == fopen(fs, a_path, a_mode, granted)
             u == IF f.opened
                  THEN buffer_reset(b, Append(closes, 0), Len(closes) + 1)
                  ELSE buffer_reset(b, closes, 0)
         IN [buffer |-> u.buffer, closes |-> u.closes, fs |-> f.fs,
             err |-> IF u.buffer = 0 THEN "system_error" ELSE "none"]

\* what a call leaves in files.call
FileCalled(op, s, d, e) ==
    [op |-> op, src |-> s, dst |-> d, err |-> e, path |-> "-",
     granted |-> TRUE, streams0 |-> files.streams, closes0 |-> files.closes, fs0 |-> files.fs]

\* before the first stream is constructed; the file is absent, empty or
\* one byte long
FileInit ==
    /\ native = "little"
    /\ codec = CodecIdle
    /\ rt = RTIdle
    /\ last = Constructed
    /\ FormatIdle
    /\ any = AnyIdle
    /\ wrap = "direct"
    /\ kind \in FileKinds
    /\ fmode \in IF kind = "file_istream" THEN {"rb"} ELSE {"wb", "ab"}
    /\ pos = 0
    /\ buf = <<>>
    /\ \E fs \in {NoFile, EmptyFile, [type |-> "regular", size |-> 1]} :
         files = [pc |-> "run",
                  streams |-> [s \in Streams |-> NoStream],
                  closes |-> <<>>,
                  fs |-> fs,
                  call |-> [op |-> "start", src |-> 0, dst |-> 0,
                            err |-> "none", path |-> "-",
                            granted |-> TRUE,
                            streams0 |-> [s \in Streams |-> NoStream],
                            closes0 |-> <<>>, fs0 |-> fs]]

fileFrame == <<native, codec, wrap, kind, fmode, pos, buf, last, rt, fmtVars,
               any>>

\* file_stream_base() noexcept = default
FileConstruct ==
    /\ \E d \in Streams :
         /\ ~files.streams[d].alive
         /\ files' = [files EXCEPT !.streams[d] = ClosedStream,
                                   !.call = FileCalled("construct", 0, d, "none")]
    /\ UNCHANGED fileFrame

\* file_istream(a_path) / file_ostream(a_path, a_mode): open on the stream
\* under construction, which owns nothing yet
FileConstructOpen ==
    /\ Len(files.closes) < MaxHandles
    /\ \E d \in Streams, a_path \in Paths, granted \in BOOLEAN :
         /\ ~files.streams[d].alive
         /\ LET r == file_stream_base_open(0, files.closes, files.fs, a_path,
                                           fmode, granted)
            IN /\ r.err = "none"
               /\ files' = [files EXCEPT
                              !.streams[d] = [alive |-> TRUE, buffer |-> r.buffer],
                              !.closes = r.closes,
                              !.fs = r.fs,
                              !.call = [FileCalled("construct open", 0, d, r.err)
                                           EXCEPT !.path = a_path,
                                                  !.granted = granted]]
    /\ UNCHANGED fileFrame

\* the same constructors when open throws: no stream comes to be
FileConstructThrow ==
    /\ \E d \in Streams, a_path \in Paths, granted \in BOOLEAN :
         /\ ~files.streams[d].alive
         /\ LET r == file_stream_base_open(0, files.closes, files.fs, a_path,
                                           fmode, granted)
            IN /\ r.err # "none"
               /\ files' = [files EXCEPT
                              !.closes = r.closes,
                              !.fs = r.fs,
                              !.call = [FileCalled("construct open", 0, d, r.err)
                                           EXCEPT !.path = a_path,
                                                  !.granted = granted]]
    /\ UNCHANGED fileFrame

\* open(a_path, a_mode) where os::fopen gives a handle:
\* this->_buffer.reset(os::fopen(a_path.c_str(), a_mode))
FileOpen ==
    /\ Len(files.closes) < MaxHandles
    /\ \E s \in Streams, a_path \in Paths, granted \in BOOLEAN :
         /\ files.streams[s].alive
         /\ LET r == file_stream_base_open(files.streams[s].buffer, files.closes,
                                           files.fs, a_path, fmode, granted)
            IN /\ r.err = "none"
               /\ files' = [files EXCEPT
                              !.streams[s].buffer = r.buffer,
                              !.closes = r.closes,
                              !.fs = r.fs,
                              !.call = [FileCalled("open", 0, s, r.err)
                                           EXCEPT !.path = a_path,
                                                  !.granted = granted]]
    /\ UNCHANGED fileFrame

\* open(a_path, a_mode) where os::fopen gives the null pointer: it is stored
\* by reset, and std::system_error thrown
FileOpenFail ==
    /\ \E s \in Streams, a_path \in Paths, granted \in BOOLEAN :
         /\ files.streams[s].alive
         /\ status(files.fs, a_path) \in {"not_found", "regular"}
         /\ LET r == file_stream_base_open(files.streams[s].buffer, files.closes,
                                           files.fs, a_path, fmode, granted)
            IN /\ r.err # "none"
               /\ files' = [files EXCEPT
                              !.streams[s].buffer = r.buffer,
                              !.closes = r.closes,
                              !.fs = r.fs,
                              !.call = [FileCalled("open", 0, s, r.err)
                                           EXCEPT !.path = a_path,
                                                  !.granted = granted]]
    /\ UNCHANGED fileFrame

\* open(a_path, a_mode) of a path that is no regular file: std::system_error
\* is thrown before _buffer is touched
FileOpenRefused ==
    /\ \E s \in Streams, a_path \in Paths, granted \in BOOLEAN :
         /\ files.streams[s].alive
         /\ status(files.fs, a_path) \notin {"not_found", "regular"}
         /\ LET r == file_stream_base_open(files.streams[s].buffer, files.closes,
                                           files.fs, a_path, fmode, granted)
            IN files' = [files EXCEPT
                           !.streams[s].buffer = r.buffer,
                           !.closes = r.closes,
                           !.fs = r.fs,
                           !.call = [FileCalled("open", 0, s, r.err)
                                        EXCEPT !.path = a_path,
                                                  !.granted = granted]]
    /\ UNCHANGED fileFrame

\* close(): this->_buffer.reset()
FileClose ==
    /\ \E s \in Streams :
         /\ files.streams[s].alive
         /\ LET u == buffer_reset(files.streams[s].buffer, files.closes, 0)
            IN files' = [files EXCEPT !.streams[s].buffer = u.buffer,
                                      !.closes = u.closes,
                                      !.call = FileCalled("close", 0, s, "none")]
    /\ UNCHANGED fileFrame

\* file_stream_base(file_stream_base&&) = default: _buffer is constructed
\* from the pointer the source's _buffer releases
MoveConstruct ==
    /\ \E s, d \in Streams :
         /\ files.streams[s].alive
         /\ ~files.streams[d].alive
         /\ LET r == buffer_release(files.streams[s].buffer)
            IN files' = [files EXCEPT
                           !.streams[s].buffer = r.buffer,
                           !.streams[d] = [alive |-> TRUE, buffer |-> r.ret],
                           !.call = FileCalled("move construct", s, d, "none")]
    /\ UNCHANGED fileFrame

\* operator=(file_stream_base&&) = default: _buffer.reset(source.release()),
\* the source being the destination itself or another stream
MoveAssign ==
    /\ \E s, d \in Streams :
         /\ files.streams[s].alive
         /\ files.streams[d].alive
         /\ LET r == buffer_release(files.streams[s].buffer)
                released == [files.streams EXCEPT ![s].buffer = r.buffer]
                u == buffer_reset(released[d].buffer, files.closes, r.ret)
            IN files' = [files EXCEPT
                           !.streams = [released EXCEPT ![d].buffer = u.buffer],
                           !.closes = u.closes,
                           !.call = FileCalled("move assign", s, d, "none")]
    /\ UNCHANGED fileFrame

\* ~file_stream_base() = default: _buffer closes the handle it owns
FileDestroy ==
    /\ \E s \in Streams :
         /\ files.streams[s].alive
         /\ LET u == buffer_reset(files.streams[s].buffer, files.closes, 0)
            IN files' = [files EXCEPT !.streams[s] = NoStream,
                                      !.closes = u.closes,
                                      !.call = FileCalled("destroy", s, 0, "none")]
    /\ UNCHANGED fileFrame

FileNext ==
    \/ FileConstruct
    \/ FileConstructOpen
    \/ FileConstructThrow
    \/ FileOpen
    \/ FileOpenFail
    \/ FileOpenRefused
    \/ FileClose
    \/ MoveConstruct
    \/ MoveAssign
    \/ FileDestroy

SpecFile == FileInit /\ [][FileNext]_vars

(***************************************************************************)
(* read_bytes and write_bytes of the span and memory backends, statement   *)
(* by statement: the bounds check (and the resize of a memory buffer),     *)
(* then this->seek_relative(count), then std::memcpy.  last.op tells how   *)
(* far the call has got.                                                   *)
(***************************************************************************)
StepKinds == {"span_istream", "memory_istream", "span_ostream",
              "memory_ostream", "fixed_memory_ostream"}

\* the calls in progress: the check has passed / the cursor has been moved
Checked(op) == <<op, "checked">>

Sought(op) == <<op, "sought">>

StepOps == {"read_bytes", "write_bytes"}

BetweenCalls == \A op \in StepOps : last.op \notin {Checked(op), Sought(op)}

\* the whole call, as the operators above give it
WholeCall(k, p, b, op, n, a_src) ==
    IF op = "read_bytes" THEN stream_read_bytes(k, p, b, n)
    ELSE stream_write_bytes(k, "-", p, b, a_src, Len(a_src))

\* if (a_dst.empty()) return; / if (a_src.empty()) return;
ReturnsEarly(k, n) == k \in {"span_istream", "span_ostream"} /\ n = 0

StepInit ==
    /\ native = "little"
    /\ FormatIdle
    /\ OwnershipIdle
    /\ codec = CodecIdle
    /\ rt = RTIdle
    /\ last = [Constructed EXCEPT !.op = <<"construct", "returned">>]
    /\ kind \in StepKinds
    /\ wrap = "direct"
    /\ fmode = "-"
    /\ buf \in SeqsUpTo(Bytes, MaxSize)
    /\ pos = 0

stepFrame == <<fmtVars, ownVars, native, codec, rt, wrap, kind, fmode>>

\* seek_absolute(a_pos) between two calls
StepSeekAbsolute ==
    /\ BetweenCalls
    /\ \E a_pos \in 0..MaxPos :
         /\ a_pos # pos
         /\ pos' = seek_absolute(a_pos)
         /\ last' = [Done(<<"seek_absolute", "returned">>, a_pos, <<>>,
                          Result(pos', buf, "none", <<>>, NoView))
                        EXCEPT !.pos0 = 0, !.buf0 = <<>>]
    /\ UNCHANGED <<stepFrame, buf>>

\* the call up to the statement before seek_relative: the early return for
\* an empty buffer, the bounds check that throws, the resize
StepCheck ==
    /\ BetweenCalls
    /\ \E op \in StepOps, a_src \in Sources :
         /\ op = (IF kind \in InputKinds THEN "read_bytes" ELSE "write_bytes")
         /\ op = "read_bytes" => a_src = SrcPattern(0, Len(a_src))
         /\ LET n == Len(a_src)
                src == IF op = "read_bytes" THEN <<>> ELSE a_src
                r == WholeCall(kind, pos, buf, op, n, src)
            IN /\ r.pos <= MaxPos
               /\ IF r.err # "none" \/ ReturnsEarly(kind, n)
                  THEN /\ last' = Done(<<op, "returned">>, n, src,
                                       Result(pos, buf, r.err, <<>>, NoView))
                       /\ buf' = buf
                  ELSE /\ last' = Done(Checked(op), n, src,
                                       Result(pos, buf, "none", <<>>, NoView))
                       /\ buf' = IF kind = "memory_ostream"
                                    /\ AddSize(pos, n) > Len(buf)
                                 THEN Resize(buf, AddSize(pos, n)) ELSE buf
    /\ UNCHANGED <<stepFrame, pos>>

\* this->seek_relative(static_cast<binary_io::streamoff>(count))
StepSeek ==
    /\ \E op \in StepOps : last.op = Checked(op) /\ last' = [last EXCEPT !.op = Sought(op)]
    /\ pos' = seek_relative(pos, ToStreamoff(last.n))
    /\ UNCHANGED <<stepFrame, buf>>

\* std::memcpy(a_dst.data(), bytes.data(), count) of a read, after which the
\* call returns
StepCopyOut ==
    /\ last.op = Sought("read_bytes")
    /\ last' = [last EXCEPT !.op = <<"read_bytes", "returned">>,
                            !.dst = ViewBytes(buf, [off |-> last.pos0,
                                                    len |-> last.n])]
    /\ UNCHANGED <<stepFrame, pos, buf>>

\* std::memcpy(buffer.data() + where, a_src.data(), a_src.size_bytes()) of a
\* write, after which the call returns
StepCopyIn ==
    /\ last.op = Sought("write_bytes")
    /\ last' = [last EXCEPT !.op = <<"write_bytes", "returned">>]
    /\ buf' = Overwrite(buf, last.pos0, last.src)
    /\ UNCHANGED <<stepFrame, pos>>

StepNext ==
    \/ StepSeekAbsolute
    \/ StepCheck
    \/ StepSeek
    \/ StepCopyOut
    \/ StepCopyIn

SpecSteps == StepInit /\ [][StepNext]_vars

(***************************************************************************)
(* A wrapper holding a stream, and the same stream used directly, under    *)
(* the same calls.  The stream used directly is in kind, fmode, pos, buf   *)
(* and endian; the wrapper is in any: its own default order any.endian,    *)
(* its pointer any.stream and the erased stream it points to, which has a  *)
(* cursor, a storage and a default order of its own.                       *)
(***************************************************************************)
\* erased_stream(a_args...): _stream(std::forward<Args>(a_args)...)
Holding(S, p, b, e) == [type |-> S, pos |-> p, buf |-> b, endian |-> e]

\* erased_stream::seek_absolute: this->_stream.seek_absolute(a_pos)
erased_stream_seek_absolute(o, a_pos) ==
    [o EXCEPT !.pos = stream_seek_absolute(o.type, o.pos, a_pos)]

erased_stream_seek_relative_from_start(o, a_off) ==
    [o EXCEPT !.pos = stream_seek_absolute(o.type, o.pos, a_off)]

\* erased_stream::seek_relative: this->_stream.seek_relative(a_off)
erased_stream_seek_relative(o, a_off) ==
    [o EXCEPT !.pos = stream_seek_relative(o.type, o.pos, a_off)]

\* erased_stream::tell: this->_stream.tell()
erased_stream_tell(o) == o.pos

\* erased_istream::read_bytes: this->_stream.read_bytes(a_dst)
erased_istream_read_bytes(o, n) ==
    LET r == stream_read_bytes(o.type, o.pos, o.buf, n)
    IN [r |-> r, o |-> [o EXCEPT !.pos = r.pos, !.buf = r.buf]]

\* erased_ostream::write_bytes: this->_stream.write_bytes(a_src)
erased_ostream_write_bytes(o, m, a_src, written) ==
    LET r == stream_write_bytes(o.type, m, o.pos, o.buf, a_src, written)
    IN [r |-> r, o |-> [o EXCEPT !.pos = r.pos, !.buf = r.buf]]

\* any_stream_base::seek_absolute: this->_stream->seek_absolute(a_pos)
any_stream_base_seek_absolute(p, objs, a_pos) ==
    [objs EXCEPT ![p] = erased_stream_seek_absolute(objs[p], a_pos)]

\* any_stream_base::seek_relative: this->_stream->seek_relative(a_off)
any_stream_base_seek_relative(p, objs, a_off) ==
    [objs EXCEPT ![p] = erased_stream_seek_relative(objs[p], a_off)]

\* any_stream_base::tell: this->_stream->tell()
any_stream_base_tell(p, objs) == erased_stream_tell(objs[p])

\* any_istream::read_bytes: this->_stream->read_bytes(a_dst)
any_istream_read_bytes(p, objs, n) ==
    LET e == erased_istream_read_bytes(objs[p], n)
    IN [r |-> e.r, objs |-> [objs EXCEPT ![p] = e.o]]

\* any_ostream::write_bytes: this->_stream->write_bytes(a_src)
any_ostream_write_bytes(p, objs, m, a_src, written) ==
    LET e == erased_ostream_write_bytes(objs[p], m, a_src, written)
    IN [r |-> e.r, objs |-> [objs EXCEPT ![p] = e.o]]

\* istream_interface<any_istream>::read(a_endian, a_args...): any_istream is
\* no no_copy_input_stream, so the bytes are read into a local buffer by
\* one read_bytes of the wrapper
any_istream_read(p, objs, a_endian, a_types, a_args) ==
    LET f == any_istream_read_bytes(p, objs, SizeOf(a_types))
    IN [r |-> f.r, objs |-> f.objs,
        values |-> IF f.r.err = "none" THEN do_read(f.r.dst, a_endian, a_types)
                   ELSE a_args]

\* ostream_interface<any_ostream>::write(a_endian, a_args...): one
\* write_bytes of the wrapper
any_ostream_write(p, objs, m, a_endian, a_args, written) ==
    any_ostream_write_bytes(p, objs, m, ostream_write_buffer(a_endian, a_args),
                            written)

AnyOrderUsedOfHeld(O) == IF O = "-" THEN any.objs[any.stream].endian ELSE O

\* the order a call on the wrapper works with: a_endian, or the wrapper's
\* this->endian()
AnyOrderUsed(O) == IF O = "-" THEN any.endian ELSE O

\* the type lists of the batched calls made on both: values of more than
\* one byte, whose bytes depend on the order
ForwardTypeLists == {<<2>>, <<1, 2>>}

ForwardArgLists ==
    {[i \in 1..Len(ts) |-> [W |-> ts[i], v |-> Sample(ts[i], i)]] :
        ts \in ForwardTypeLists}

\* the source buffers of the raw writes made on both
ForwardSources == {SrcPattern(1, n) : n \in 0..MaxCount}

\* what a call returned or threw, on the stream and on the wrapper
Outcome(e, out) == [err |-> e, out |-> out]

Forwarded(op, O, direct, wrapped) ==
    [op |-> op, O |-> O, direct |-> direct, wrapped |-> wrapped]

\* a stream B constructed over some storage, with a default order that is
\* the native one or has been set, and a wrapper constructed holding B
ForwardInit ==
    /\ native = "little"
    /\ endian \in Orders
    /\ typed = TypedIdle
    /\ files = FilesIdle
    /\ codec = CodecIdle
    /\ rt = RTIdle
    /\ last = Constructed
    /\ kind \in InputKinds \cup OutputKinds
    /\ wrap = (IF kind \in InputKinds THEN "any_istream" ELSE "any_ostream")
    /\ fmode \in CASE kind = "file_istream" -> {"rb"}
                   [] kind = "file_ostream" -> {"wb", "ab"}
                   [] OTHER -> {"-"}
    /\ buf \in IF fmode = "wb" THEN {<<>>} ELSE TypedStorages
    /\ pos \in IF fmode = "ab" THEN {0, Len(buf)} ELSE {0}
    /\ any = [pc |-> "forward", endian |-> native, stream |-> 1,
              objs |-> <<Holding(kind, pos, buf, endian)>>,
              defaulted |-> FALSE,
              call |-> Forwarded("construct", "-", Outcome("none", <<>>),
                                 Outcome("none", <<>>))]

forwardFrame == <<native, codec, rt, last, wrap, kind, fmode, endian, typed, files>>

\* the two are compared call by call, up to the first call that leaves the
\* held stream elsewhere than the stream used directly
InStep ==
    /\ any.objs[any.stream].pos = pos
    /\ any.objs[any.stream].buf = buf

\* seek_absolute(a_pos) on both
ForwardSeekAbsolute ==
    /\ InStep
    /\ \E a_pos \in {-1, 0, MaxPos} :
         /\ pos' = stream_seek_absolute(kind, pos, a_pos)
         /\ any' = [any EXCEPT
                      !.objs = any_stream_base_seek_absolute(any.stream, any.objs, a_pos),
                      !.call = Forwarded("seek_absolute", "-", Outcome("none", <<>>),
                                         Outcome("none", <<>>))]
    /\ UNCHANGED <<forwardFrame, buf>>

\* seek_relative(a_off) on both
ForwardSeekRelative ==
    /\ InStep
    /\ \E a_off \in {-1, 1} :
         /\ stream_seek_relative(kind, pos, a_off) <= MaxPos
         /\ any_stream_base_tell(any.stream,
               any_stream_base_seek_relative(any.stream, any.objs, a_off)) <= MaxPos
         /\ pos' = stream_seek_relative(kind, pos, a_off)
         /\ any' = [any EXCEPT
                      !.objs = any_stream_base_seek_relative(any.stream, any.objs, a_off),
                      !.call = Forwarded("seek_relative", "-", Outcome("none", <<>>),
                                         Outcome("none", <<>>))]
    /\ UNCHANGED <<forwardFrame, buf>>

\* tell() on both
ForwardTell ==
    /\ InStep
    /\ any.call.op # "tell"
    /\ any' = [any EXCEPT
                 !.call = Forwarded("tell", "-", Outcome("none", <<pos>>),
                             Outcome("none",
                                     <<any_stream_base_tell(any.stream, any.objs)>>))]
    /\ UNCHANGED <<forwardFrame, pos, buf>>

\* read_bytes(a_dst) on both, with a destination of n bytes
ForwardReadBytes ==
    /\ InStep
    /\ kind \in InputKinds
    /\ \E n \in 0..MaxCount :
         LET d == stream_read_bytes(kind, pos, buf, n)
             w == any_istream_read_bytes(any.stream, any.objs, n)
         IN /\ pos' = d.pos
            /\ buf' = d.buf
            /\ any' = [any EXCEPT
                         !.objs = w.objs,
                         !.call = Forwarded("read_bytes", "-",
                                            Outcome(d.err, d.dst),
                                            Outcome(w.r.err, w.r.dst))]
    /\ UNCHANGED forwardFrame

\* write_bytes(a_src) on both
ForwardWriteBytes ==
    /\ InStep
    /\ kind \in OutputKinds
    /\ \E a_src \in ForwardSources :
         \E written \in IF kind = "file_ostream" THEN Written(Len(a_src))
                        ELSE {Len(a_src)} :
            LET d == stream_write_bytes(kind, fmode, pos, buf, a_src, written)
                w == any_ostream_write_bytes(any.stream, any.objs, fmode, a_src,
                                             written)
            IN /\ d.pos <= MaxPos
               /\ w.r.pos <= MaxPos
               /\ pos' = d.pos
               /\ buf' = d.buf
               /\ any' = [any EXCEPT
                            !.objs = w.objs,
                            !.call = Forwarded("write_bytes", "-",
                                               Outcome(d.err, <<>>),
                                               Outcome(w.r.err, <<>>))]
    /\ UNCHANGED forwardFrame

\* read(a_endian, a_args...) or read(a_args...) on both
ForwardRead ==
    /\ InStep
    /\ kind \in InputKinds
    /\ \E a_types \in ForwardTypeLists, O \in OrderArgs :
         LET d == istream_read_args("direct", kind, pos, buf, OrderUsed(O),
                                    a_types, ValuesOf(Unset(a_types)))
             w == any_istream_read(any.stream, any.objs, AnyOrderUsed(O),
                                   a_types, ValuesOf(Unset(a_types)))
         IN /\ pos' = d.r.pos
            /\ buf' = d.r.buf
            /\ any' = [any EXCEPT
                         !.objs = w.objs,
                         !.defaulted = any.defaulted \/ O = "-",
                         !.call = Forwarded("read", O,
                                            Outcome(d.r.err, d.values),
                                            Outcome(w.r.err, w.values))]
    /\ UNCHANGED forwardFrame

\* write(a_endian, a_args...) or write(a_args...) on both
ForwardWrite ==
    /\ InStep
    /\ kind \in OutputKinds
    /\ \E a_args \in ForwardArgLists, O \in OrderArgs :
         \E written \in IF kind = "file_ostream"
                        THEN Written(SizeOf(TypesOf(a_args)))
                        ELSE {SizeOf(TypesOf(a_args))} :
            LET d == ostream_write(kind, fmode, pos, buf, OrderUsed(O), a_args,
                                   written)
                w == any_ostream_write(any.stream, any.objs, fmode,
                                       AnyOrderUsed(O), a_args, written)
            IN /\ d.pos <= MaxPos
               /\ w.r.pos <= MaxPos
               /\ pos' = d.pos
               /\ buf' = d.buf
               /\ any' = [any EXCEPT
                            !.objs = w.objs,
                            !.defaulted = any.defaulted \/ O = "-",
                            !.call = Forwarded("write", O,
                                               Outcome(d.err, <<>>),
                                               Outcome(w.r.err, <<>>))]
    /\ UNCHANGED forwardFrame

ForwardNext ==
    \/ ForwardSeekAbsolute
    \/ ForwardSeekRelative
    \/ ForwardTell
    \/ ForwardReadBytes
    \/ ForwardWriteBytes
    \/ ForwardRead
    \/ ForwardWrite

SpecForward == ForwardInit /\ [][ForwardNext]_vars

(***************************************************************************)
(* The default byte orders of a wrapper and of the stream it holds: each   *)
(* is the basic_format_stream::_endian of its own object.                  *)
(***************************************************************************)
\* what a call leaves in any.call: the call, and the orders, the cursor and
\* the storage before it ("-" for the order of a stream that is not there)
OrdersCalled(op, O, a_args, e, out) ==
    [op |-> op, O |-> O, args |-> a_args, err |-> e, out |-> out,
     wrapper0 |-> any.endian, stream0 |-> any.stream,
     held0 |-> IF has_value(any.stream) THEN any.objs[any.stream]
               ELSE Holding("none", 0, <<>>, "-")]

\* a wrapper constructed holding a stream over the storage buf, which the
\* streams emplaced later are constructed over too; both orders are the
\* native one
OrdersInit ==
    /\ native = "little"
    /\ endian = native
    /\ typed = TypedIdle
    /\ files = FilesIdle
    /\ codec = CodecIdle
    /\ rt = RTIdle
    /\ last = Constructed
    /\ kind = "none"
    /\ pos = 0
    /\ buf \in TypedStorages
    /\ wrap \in {"any_istream", "any_ostream"}
    /\ fmode \in IF wrap = "any_istream" THEN {"rb"} ELSE {"wb", "ab"}
    /\ \E S \in HeldTypes(wrap) :
         any = [pc |-> "orders", endian |-> native, stream |-> 1,
                objs |-> <<Holding(S, 0, buf, native)>>,
                call |-> [op |-> "construct", O |-> "-", args |-> <<>>,
                          err |-> "none", out |-> <<>>, wrapper0 |-> native,
                          stream0 |-> 0, held0 |-> Holding("none", 0, <<>>, "-")]]

ordersFrame == <<native, codec, rt, last, wrap, kind, fmode, pos, buf, endian,
                 typed, files>>

\* wrapper.endian(o), wrapper >> o, wrapper << o
OrdersSetWrapper ==
    /\ \E o \in Orders :
         any' = [any EXCEPT !.endian = o,
                            !.call = OrdersCalled("wrapper endian", o, <<>>,
                                                  "none", <<>>)]
    /\ UNCHANGED ordersFrame

\* wrapper.get<C>().endian(o)
OrdersSetHeld ==
    /\ has_value(any.stream)
    /\ \E o \in Orders :
         any' = [any EXCEPT !.objs[any.stream].endian = o,
                            !.call = OrdersCalled("held endian", o, <<>>,
                                                  "none", <<>>)]
    /\ UNCHANGED ordersFrame

\* wrapper.read(a_endian, a_args...) and wrapper.read(a_args...)
OrdersRead ==
    /\ has_value(any.stream)
    /\ wrap = "any_istream"
    /\ \E a_types \in ForwardTypeLists, O \in OrderArgs :
         LET w == any_istream_read(any.stream, any.objs, AnyOrderUsed(O),
                                   a_types, ValuesOf(Unset(a_types)))
         IN any' = [any EXCEPT
                      !.objs = w.objs,
                      !.call = OrdersCalled("read", O, Unset(a_types), w.r.err,
                                            w.values)]
    /\ UNCHANGED ordersFrame

\* wrapper.write(a_endian, a_args...) and wrapper.write(a_args...)
OrdersWrite ==
    /\ has_value(any.stream)
    /\ wrap = "any_ostream"
    /\ \E a_args \in ForwardArgLists, O \in OrderArgs :
         \E written \in IF any.objs[any.stream].type = "file_ostream"
                        THEN Written(SizeOf(TypesOf(a_args)))
                        ELSE {SizeOf(TypesOf(a_args))} :
            LET w == any_ostream_write(any.stream, any.objs, fmode,
                                       AnyOrderUsed(O), a_args, written)
            IN /\ w.r.pos <= MaxPos
               /\ any' = [any EXCEPT
                            !.objs = w.objs,
                            !.call = OrdersCalled("write", O, a_args, w.r.err,
                                                  <<>>)]
    /\ UNCHANGED ordersFrame

\* std::make_unique<StreamErased<S>>(a_args...): the exception the
\* constructor of S throws ("none" when it returns) and the stream
\* constructed, over the storage b. A file stream is constructed by opening
\* a_path, the other streams by taking their storage.
make_unique(S, b, a_path, granted) ==
    [err |-> IF S \in FileKinds
             THEN file_stream_base_open(0, <<>>,
                                        [type |-> "regular", size |-> Len(b)],
                                        a_path, fmode, granted).err
             ELSE "none",
     obj |-> Holding(S, 0, b, native)]

any_stream_base_emplace_reset_first(p, objs, new, c) ==
    LET made == [i \in (DOMAIN objs) \cup {new} |->
                   IF i = new THEN c.obj ELSE objs[i]]
        u == IF c.err = "none" THEN unique_ptr_reset(p, made, new)
             ELSE unique_ptr_reset(p, objs, 0)
    IN [stream |-> u.stream, objs |-> u.objs, err |-> c.err]

\* emplace<S>(a_args...) on a wrapper whose _stream is p, c being what
\* std::make_unique gives and new the address of the stream it constructs:
\* the argument of the assignment is evaluated first, so that an exception
\* leaves the function before _stream is assigned
any_stream_base_emplace(p, objs, new, c) ==
    LET made == [i \in (DOMAIN objs) \cup {new} |->
                   IF i = new THEN c.obj ELSE objs[i]]
        u == IF c.err = "none" THEN unique_ptr_reset(p, made, new)
             ELSE [stream |-> p, objs |-> objs]
    IN [stream |-> u.stream, objs |-> u.objs, err |-> c.err]

\* wrapper.emplace<S>(a_args...): this->_stream = std::make_unique<...>(...);
\* the new erased stream is at the address the wrapper's stream is not at
OrdersEmplace ==
    /\ \E S \in HeldTypes(wrap), a_path \in Paths, granted \in BOOLEAN :
         LET new == IF any.stream = 1 THEN 2 ELSE 1
             u == any_stream_base_emplace(any.stream, any.objs, new,
                                          make_unique(S, buf, a_path, granted))
         IN any' = [any EXCEPT !.stream = u.stream, !.objs = u.objs,
                               !.call = OrdersCalled("emplace", "-", <<>>,
                                                     u.err, <<>>)]
    /\ UNCHANGED ordersFrame

\* wrapper.reset()
OrdersReset ==
    /\ has_value(any.stream)
    /\ LET u == unique_ptr_reset(any.stream, any.objs, 0)
       IN any' = [any EXCEPT !.stream = u.stream, !.objs = u.objs,
                             !.call = OrdersCalled("reset", "-", <<>>, "none",
                                                   <<>>)]
    /\ UNCHANGED ordersFrame

OrdersNext ==
    \/ OrdersSetWrapper
    \/ OrdersSetHeld
    \/ OrdersRead
    \/ OrdersWrite
    \/ OrdersEmplace
    \/ OrdersReset

SpecOrders == OrdersInit /\ [][OrdersNext]_vars

(***************************************************************************)
(* Claims about the codec                                                  *)
(***************************************************************************)
\* the i-th least significant byte of v, i = 1 for the least significant
Digit(v, i) == (v \div Pow(ByteBase, i - 1)) % ByteBase

\* a value whose bytes differ from their mirror image
Asymmetric(v, W) == \E i \in 1..W : Digit(v, i) # Digit(v, W + 1 - i)

\* C1: for every width in {1,2,4,8}, both byte orders and every value v,
\* reading back with order O the bytes written with order O gives v.
C1_RoundTrip ==
    codec.op = "read" => codec.out = codec.v

\* the round trip has been made for an 8-byte value in the non-native order
C1_Witness ==
    /\ codec.op = "read"
    /\ codec.W = 8
    /\ codec.O # native
    /\ Asymmetric(codec.v, codec.W)
    /\ codec.out = codec.v

\* C2: reverse is an involution, the identity for width 1, and for wider
\* values gives the value whose byte sequence is that of v reversed.
C2_ReverseInvolution ==
    /\ codec.op = "reversed twice" => codec.out = codec.v
    /\ codec.op = "reversed" =>
         /\ codec.W = 1 => codec.out = codec.v
         /\ codec.out \in Values(codec.W)
         /\ \A i \in 1..codec.W :
               Digit(codec.out, i) = Digit(codec.v, codec.W + 1 - i)

\* a value of more than one byte that reverse changes has been reversed twice
C2_Witness ==
    /\ codec.op = "reversed twice"
    /\ codec.W = 4
    /\ reverse(codec.v, codec.W) # codec.v
    /\ codec.out = codec.v

\* C3: little-endian order writes the least significant byte first and
\* big-endian order the most significant byte first, whatever the native
\* order is; read is the inverse mapping; a 1-byte value is the same byte
\* under both orders.
C3_BitExact ==
    /\ codec.op \in {"written", "read"} =>
         /\ Len(codec.bytes) = codec.W
         /\ \A i \in 1..codec.W :
               codec.bytes[i] = IF codec.O = "little"
                                THEN Digit(codec.v, i)
                                ELSE Digit(codec.v, codec.W + 1 - i)
         /\ codec.W = 1 => codec.bytes = <<codec.v>>
    /\ codec.op = "read" =>
         \A i \in 1..codec.W :
            Digit(codec.out, i) = IF codec.O = "little"
                                  THEN codec.bytes[i]
                                  ELSE codec.bytes[codec.W + 1 - i]

\* a 2-byte value with distinct bytes has been written big-endian on a
\* little-endian platform
C3_Witness ==
    /\ codec.op = "written"
    /\ native = "little"
    /\ codec.O = "big"
    /\ codec.W = 2
    /\ codec.bytes[1] # codec.bytes[2]
    /\ codec.bytes[1] = Digit(codec.v, 2)

(***************************************************************************)
(* Claims about the handles of file streams                                *)
(***************************************************************************)
Handles == 1..Len(files.closes)

\* the live streams whose _buffer holds handle h
Owners(h) == {s \in Streams : files.streams[s].alive /\ files.streams[s].buffer = h}

\* every handle is owned by at most one stream, closed at most once, and
\* open exactly as long as a stream owns it
OwnedOrClosedOnce ==
    \A h \in Handles :
       /\ Cardinality(Owners(h)) <= 1
       /\ files.closes[h] <= 1
       /\ files.closes[h] = 0 <=> Owners(h) # {}

\* when every stream has been destroyed, every handle has been closed once
NoneLeaked ==
    (\A s \in Streams : ~files.streams[s].alive) =>
        \A h \in Handles : files.closes[h] = 1

\* after close() is_open() is false
ClosedAfterClose ==
    files.call.op = "close" => ~is_open(files.streams[files.call.dst].buffer)

Moved == files.call.op \in {"move construct", "move assign"}

\* the handle the source of the last move held before it
MovedHandle == files.call.streams0[files.call.src].buffer

\* the handle the destination of the last move-assignment held before it
ReplacedHandle == files.call.streams0[files.call.dst].buffer

\* C20 as stated: over any sequence of open, close, move-construction,
\* move-assignment and destruction, every handle opened is owned by at most
\* one stream at a time and closed exactly once; after close() is_open() is
\* false; after a move the source is not open and the destination is open,
\* and a move-assignment closes the handle the destination held before.
C20_HandleOwnership ==
    /\ OwnedOrClosedOnce
    /\ NoneLeaked
    /\ ClosedAfterClose
    /\ Moved =>
         /\ ~is_open(files.streams[files.call.src].buffer)
         /\ is_open(files.streams[files.call.dst].buffer)
    /\ (files.call.op = "move assign" /\ is_open(ReplacedHandle)) =>
         files.closes[ReplacedHandle] = 1

\* C20, amended: the ownership and close() parts as stated; after a move
\* from an open stream to another stream the source is not open and the
\* destination is open and holds the source's handle; after a move from a
\* stream that is not open neither is open; a move-assignment from another
\* stream closes the handle the destination held before; a move-assignment
\* of a stream to itself changes nothing.
C20_HandleOwnershipOfMoves ==
    /\ OwnedOrClosedOnce
    /\ NoneLeaked
    /\ ClosedAfterClose
    /\ (Moved /\ files.call.src # files.call.dst) =>
         /\ ~is_open(files.streams[files.call.src].buffer)
         /\ files.streams[files.call.dst].buffer = MovedHandle
         /\ is_open(files.streams[files.call.dst].buffer) <=> is_open(MovedHandle)
         /\ is_open(MovedHandle) => files.closes[MovedHandle] = 0
    /\ (files.call.op = "move assign" /\ files.call.src # files.call.dst
          /\ is_open(ReplacedHandle)) =>
         files.closes[ReplacedHandle] = 1
    /\ (files.call.op = "move assign" /\ files.call.src = files.call.dst) =>
         /\ files.streams = files.call.streams0
         /\ files.closes = files.call.closes0

\* an open stream has been move-assigned to another open stream: the
\* destination holds the source's handle, still open, and its own is closed
C20_Witness ==
    /\ files.call.op = "move assign"
    /\ files.call.src # files.call.dst
    /\ is_open(MovedHandle)
    /\ is_open(ReplacedHandle)
    /\ files.streams[files.call.dst].buffer = MovedHandle
    /\ ~is_open(files.streams[files.call.src].buffer)
    /\ files.closes[ReplacedHandle] = 1
    /\ files.closes[MovedHandle] = 0

(***************************************************************************)
(* Claims about the cursor                                                 *)
(***************************************************************************)
\* the last operation was a seek
SeekDone == last.op \in {"seek_absolute", "seek_relative"}

\* the position a seek aims at
SeekTarget == IF last.op = "seek_absolute" THEN last.n ELSE last.pos0 + last.n

\* C11: after seek_absolute(p) tell() returns p and after seek_relative(d)
\* from a cursor old it returns old + d, for every signed p and d; a seek
\* alone raises no error.
C11_SeekSetsCursor ==
    SeekDone =>
        /\ pos = SeekTarget
        /\ last.err = "none"

\* C11 as amended: a seek to a target that is not negative sets the cursor to
\* the target, however far past the end of the storage that is; a seek to a
\* negative target sets the cursor of a span or memory stream to 0 and leaves
\* the position of a file where it was; a seek raises no error and leaves the
\* storage unchanged.
C11_SeekSetsCursorFromZero ==
    SeekDone =>
        /\ SeekTarget >= 0 => pos = SeekTarget
        /\ SeekTarget < 0 => pos = IF kind \in FileKinds THEN last.pos0 ELSE 0
        /\ last.err = "none"
        /\ buf = last.buf0

\* a relative seek has moved a cursor that was not at the start to beyond the
\* end of the storage
C11_Witness ==
    /\ last.op = "seek_relative"
    /\ last.pos0 > 0
    /\ last.n = 1
    /\ pos = last.pos0 + 1
    /\ pos > Len(buf)

\* C12: tell() is never negative, on any backend, directly or through a
\* wrapper: on the span and memory backends seek_absolute(p) sets the cursor
\* to max(p, 0) and seek_relative(d) sets it to max(old + d, 0), positions
\* past the end are kept as given, and so the cursor a read or a write starts
\* from (its assertion where >= 0) is never negative.
C12_TellNeverNegative ==
    /\ pos >= 0
    /\ last.pos0 >= 0
    /\ (SeekDone /\ kind \notin FileKinds) =>
          pos = IF SeekTarget > 0 THEN SeekTarget ELSE 0

\* seek_absolute(0); seek_relative(-1) through a wrapper has left tell() at 0
C12_Witness ==
    /\ last.op = "seek_relative"
    /\ wrap = "any_istream"
    /\ kind = "span_istream"
    /\ last.pos0 = 0
    /\ last.n = -1
    /\ pos = 0

(***************************************************************************)
(* Claims about the wrapper                                                *)
(***************************************************************************)
\* the last call was get<S> or get_if<S> on a wrapper holding a stream
AskedOfHolder ==
    /\ any.pc = "idle"
    /\ any.call.op \in {"get", "get_if"}
    /\ has_value(any.call.stream0)

\* ... on a wrapper holding nothing
AskedOfEmpty ==
    /\ any.pc = "idle"
    /\ any.call.op \in {"get", "get_if"}
    /\ ~has_value(any.call.stream0)

\* C13: on a wrapper holding a stream of type C, get_if<C>() returns the held
\* stream and get<C>() succeeds with the same object; for every other type W
\* get_if<W>() returns null and get<W>() throws std::bad_cast; none of these
\* calls changes the wrapper or the held stream.
C13_GetByType ==
    AskedOfHolder =>
        /\ any.call.S = any.call.objs0[any.call.stream0].type =>
              /\ any.call.err = "none"
              /\ any.call.ret = any.call.stream0
        /\ any.call.S # any.call.objs0[any.call.stream0].type =>
              /\ any.call.ret = 0
              /\ any.call.err = IF any.call.op = "get" THEN "bad_cast" ELSE "none"
        /\ any.stream = any.call.stream0
        /\ any.objs = any.call.objs0

\* get_if of another type has returned null for a wrapper whose stream a seek
\* through the wrapper has moved
C13_Witness ==
    /\ AskedOfHolder
    /\ any.call.op = "get_if"
    /\ any.call.S # any.objs[any.stream].type
    /\ any.objs[any.stream].pos > 0
    /\ any.call.ret = 0

\* C14: on a wrapper holding nothing get<C>() fails with std::bad_cast for
\* every type C, without dereferencing the null pointer or tripping an
\* assertion, and get_if<C>() returns null.
C14_GetOfEmpty ==
    AskedOfEmpty =>
        /\ any.call.ret = 0
        /\ any.call.err = IF any.call.op = "get" THEN "bad_cast" ELSE "none"

\* C14 for get_if alone, which casts the pointer and not what it points to
C14_GetIfOfEmpty ==
    (AskedOfEmpty /\ any.call.op = "get_if") =>
        /\ any.call.ret = 0
        /\ any.call.err = "none"

\* C15: between calls the wrapper owns at most one stream, and has_value()
\* is true exactly when it owns one: false after default construction and
\* after reset() (which on an empty wrapper changes nothing), true after
\* construction from a stream and after an emplace<C>() that returns, when the
\* stream owned is the newly constructed C and the one owned before is
\* destroyed.
C15_HasValue ==
    any.pc = "idle" =>
        /\ Cardinality(DOMAIN any.objs) <= 1
        /\ has_value(any.stream) <=> DOMAIN any.objs # {}
        /\ has_value(any.stream) => DOMAIN any.objs = {any.stream}
        /\ any.call.op = "has_value" =>
              any.call.ret = IF DOMAIN any.objs # {} THEN 1 ELSE 0
        /\ any.call.op = "construct" =>
              has_value(any.stream) = (any.call.S # "-")
        /\ any.call.op \in {"reset", "reset again"} =>
              /\ ~has_value(any.stream)
              /\ DOMAIN any.objs = {}
        /\ any.call.op = "reset again" =>
              /\ any.call.stream0 = 0
              /\ any.call.objs0 = any.objs
        /\ (any.call.op = "emplace" /\ any.call.err = "none") =>
              /\ has_value(any.stream)
              /\ any.stream = any.made
              /\ any.stream # any.call.stream0
              /\ any.objs[any.stream] = Erased(any.call.S)

\* an emplace has replaced a stream of one type by a stream of another
C15_Witness ==
    /\ any.pc = "idle"
    /\ any.call.op = "emplace"
    /\ any.call.err = "none"
    /\ has_value(any.call.stream0)
    /\ any.call.objs0[any.call.stream0].type # any.call.S
    /\ DOMAIN any.objs = {any.stream}
    /\ any.objs[any.stream].type = any.call.S

\* C16: in an emplace<C>() on a wrapper that holds a stream, the stream held
\* before is destroyed before the new one is constructed: at no point of the
\* operation are two streams of the wrapper alive.
C16_OneLiveBackend ==
    Cardinality(DOMAIN any.objs) <= 1

(***************************************************************************)
(* Claims about typed writes and reads                                     *)
(***************************************************************************)
\* the batch has been written and the read of its types has been attempted
RTReadAttempted == rt.stage \in {"read", "read failed"}

\* C4: on the span, memory and file backends, a sequence of mixed-width
\* values written with order O from position p on and then read, as the same
\* types with the same order from position p of the resulting bytes, comes
\* back as exactly the values written.
C4_RoundTrip ==
    RTReadAttempted =>
        /\ rt.stage = "read"
        /\ rt.values = ValuesOf(rt.args)

\* C4 for the streams whose write starts at the position sought: every
\* stream but a file opened with "ab"
C4_RoundTripWhereSought ==
    (RTReadAttempted /\ rt.mode # "ab") =>
        /\ rt.stage = "read"
        /\ rt.values = ValuesOf(rt.args)

\* the four widths have come back from a file written in the order that is
\* not the platform's, past the start of the file
C4_RoundTripReached ==
    /\ rt.stage = "read"
    /\ kind = "file_istream"
    /\ rt.mode = "wb"
    /\ rt.O # native
    /\ rt.p > 0
    /\ TypesOf(rt.args) = MixedWidths
    /\ rt.values = ValuesOf(rt.args)

(***************************************************************************)
(* Claims about batched and chained calls and the default order            *)
(***************************************************************************)
\* the bytes of a value of width W in order E, stated from its digits
ByteSeq(v, W, E) ==
    [i \in 1..W |-> IF E = "little" THEN Digit(v, i) ELSE Digit(v, W + 1 - i)]

\* the encodings of a list of arguments one after the other
RECURSIVE Encoding(_, _)
Encoding(a_args, E) ==
    IF a_args = <<>> THEN <<>>
    ELSE ByteSeq(Head(a_args).v, Head(a_args).W, E) \o Encoding(Tail(a_args), E)

\* the value a sequence of bytes stands for in order E
ValueIn(bytes, E) ==
    SumUp([i \in 1..Len(bytes) |->
              bytes[i] * Pow(ByteBase, IF E = "little" THEN i - 1
                                       ELSE Len(bytes) - i)], Len(bytes))

\* the values of the given types that lie one after the other in bytes
RECURSIVE Decoding(_, _, _)
Decoding(bytes, a_types, E) ==
    IF a_types = <<>> THEN <<>>
    ELSE <<ValueIn(SubSeq(bytes, 1, Head(a_types)), E)>>
            \o Decoding(SubSeq(bytes, Head(a_types) + 1, Len(bytes)),
                        Tail(a_types), E)

TypedWriteDone == typed.op \in {"write", "chain write"}

TypedReadDone == typed.op \in {"read", "chain read"}

BatchDone == typed.op \in {"write", "read"}

\* sizeof(T1) + ... + sizeof(Tn) of the last typed call
TypedSize == SizeOf(TypesOf(typed.args))

\* the order the last typed call had to work with
TypedOrder == IF typed.O = "-" THEN typed.endian0 ELSE typed.O

\* the batch of the last call reaches beyond the end of the storage
BatchOverruns == BatchDone /\ typed.pos0 + TypedSize > Len(typed.buf0)

\* the failed batch has changed nothing
BatchRefused ==
    /\ typed.err = "buffer_exhausted"
    /\ pos = typed.pos0
    /\ buf = typed.buf0
    /\ typed.op = "read" => typed.values = ValuesOf(typed.args)

\* C17: a batched read or write of values of types T1..Tn issues exactly one
\* raw read_bytes or write_bytes, of sizeof(T1) + ... + sizeof(Tn) bytes; on
\* the span and memory backends a batch that does not fit at the cursor fails
\* with buffer_exhausted and changes no byte of the storage, no output
\* variable and not the cursor, also when a prefix of its fields would fit.
C17_BatchAllOrNothing ==
    /\ BatchDone => typed.calls = <<TypedSize>>
    /\ (BatchOverruns /\ kind \in {"span_istream", "span_ostream",
                                   "memory_istream", "memory_ostream",
                                   "fixed_memory_ostream"}) => BatchRefused

\* C17 as amended: the batch is refused on the backends that cannot grow:
\* span_istream, span_ostream, the memory input backend and a memory output
\* backend over a non-resizable container
C17_BatchAllOrNothingWhereFixed ==
    /\ BatchDone => typed.calls = <<TypedSize>>
    /\ (BatchOverruns /\ kind \in {"span_istream", "span_ostream",
                                   "memory_istream",
                                   "fixed_memory_ostream"}) => BatchRefused

\* a batch of a 1-byte and a 4-byte value has been refused by a span_istream
\* that had the first byte
C17_Witness ==
    /\ typed.op = "read"
    /\ kind = "span_istream"
    /\ TypesOf(typed.args) = <<1, 4>>
    /\ typed.pos0 < Len(typed.buf0)
    /\ BatchOverruns
    /\ BatchRefused

\* there is room for the bytes of the last typed call
EnoughBytes ==
    CASE kind \in InputKinds -> typed.pos0 + TypedSize <= Len(typed.buf0)
      [] kind \in {"span_ostream", "fixed_memory_ostream"} ->
            typed.pos0 + TypedSize <= Len(typed.buf0)
      [] kind = "memory_ostream" -> TRUE
      [] kind = "file_ostream" -> typed.err = "none"

\* what a batched and a chained call of the same values both come to
SameEffect ==
    /\ typed.err = "none"
    /\ pos = typed.pos0 + TypedSize
    /\ TypedWriteDone =>
          SubSeq(buf, typed.pos0 + 1, typed.pos0 + TypedSize)
              = Encoding(typed.args, TypedOrder)
    /\ TypedReadDone =>
          /\ buf = typed.buf0
          /\ typed.values
                = Decoding(SubSeq(typed.buf0, typed.pos0 + 1,
                                  typed.pos0 + TypedSize),
                           TypesOf(typed.args), TypedOrder)

\* C18: with enough bytes available, a batched write or read of v1..vn with
\* order O at cursor p and the chained stream << O << v1 << ... << vn (or >>)
\* from the same state have the same effect: the encodings lie one after the
\* other in declared order from p on, the cursor ends at p + the sum of the
\* sizes, and the values read are the same.
C18_BatchEqualsChain ==
    ((TypedWriteDone \/ TypedReadDone) /\ EnoughBytes) => SameEffect

\* C18 for the streams whose write starts at the cursor: every stream but a
\* file opened with "ab"
C18_BatchEqualsChainWhereSought ==
    ((TypedWriteDone \/ TypedReadDone) /\ EnoughBytes /\ fmode # "ab") =>
        SameEffect

\* C19: the default order of a stream is the native order after construction;
\* endian(o), stream >> o and stream << o set it to o and leave the cursor and
\* the storage alone; a read or write that omits the order works with the
\* default order current at the call, and one given an order works with that
\* order and leaves the default unchanged.
C19_DefaultOrder ==
    /\ typed.op = "construct" => endian = native
    /\ typed.op = "endian" =>
          /\ endian = typed.O
          /\ pos = typed.pos0
          /\ buf = typed.buf0
    /\ BatchDone => endian = typed.endian0
    /\ typed.op \in {"chain write", "chain read"} => endian = TypedOrder
    /\ (TypedWriteDone /\ typed.err = "none") =>
          SubSeq(buf, pos - TypedSize + 1, pos) = Encoding(typed.args, TypedOrder)
    /\ (TypedReadDone /\ typed.err = "none") =>
          typed.values = Decoding(SubSeq(typed.buf0, typed.pos0 + 1,
                                         typed.pos0 + TypedSize),
                                  TypesOf(typed.args), TypedOrder)

\* a write that omits the order has encoded a 2-byte value in the default
\* order, which had been set to the order that is not the native one
C19_Witness ==
    /\ typed.op = "write"
    /\ typed.O = "-"
    /\ typed.endian0 # native
    /\ endian = typed.endian0
    /\ typed.err = "none"
    /\ TypesOf(typed.args) = <<2>>
    /\ Asymmetric(typed.args[1].v, 2)
    /\ SubSeq(buf, pos - 1, pos) = ByteSeq(typed.args[1].v, 2, typed.endian0)

(***************************************************************************)
(* Claims about raw reads and writes                                       *)
(***************************************************************************)
\* the last operation was a read of the span or memory input backend
ReadDone ==
    /\ last.op \in {"read_bytes", "read_bytes_count"}
    /\ kind \in {"span_istream", "memory_istream"}

\* the bytes at offsets [p, p+n) of a storage
Range(b, p, n) == [i \in 1..n |-> b[p + i]]

\* C5: on the span and memory input backends a read of n bytes at cursor p
\* with p + n <= size succeeds, delivers exactly the bytes at [p, p+n) (copied,
\* or as a view of exactly n bytes), moves the cursor to p + n and leaves the
\* storage unchanged.
C5_ReadDelivers ==
    (ReadDone /\ last.pos0 + last.n <= Len(last.buf0)) =>
        /\ last.err = "none"
        /\ pos = last.pos0 + last.n
        /\ buf = last.buf0
        /\ last.op = "read_bytes" =>
              last.dst = Range(last.buf0, last.pos0, last.n)
        /\ last.op = "read_bytes_count" =>
              /\ last.view.len = last.n
              /\ last.n > 0 => last.view.off = last.pos0
              /\ ViewBytes(last.buf0, last.view)
                    = Range(last.buf0, last.pos0, last.n)

\* the second of two different bytes has been read from a memory_istream
C5_Witness ==
    /\ last.op = "read_bytes"
    /\ kind = "memory_istream"
    /\ Len(last.buf0) = 2
    /\ last.buf0[1] # last.buf0[2]
    /\ last.pos0 = 1
    /\ last.n = 1
    /\ last.err = "none"
    /\ last.dst = <<last.buf0[2]>>
    /\ pos = 2

\* C6: on span_istream, span_ostream, the memory input backend and a memory
\* output backend over a non-resizable container, a read or write of n > 0
\* bytes at cursor p with p + n > size fails with buffer_exhausted and leaves
\* the cursor and the storage unchanged.
C6_OverrunFails ==
    ( /\ last.op \in {"read_bytes", "read_bytes_count", "write_bytes"}
      /\ kind \in {"span_istream", "span_ostream", "memory_istream",
                   "fixed_memory_ostream"}
      /\ last.n > 0
      /\ last.pos0 + last.n > Len(last.buf0) ) =>
        /\ last.err = "buffer_exhausted"
        /\ pos = last.pos0
        /\ buf = last.buf0

\* C6 for the calls that are given a buffer (read_bytes(a_dst) and
\* write_bytes(a_src)), whose length the sum with the cursor cannot wrap
C6_OverrunFailsWithBuffer ==
    ( /\ last.op \in {"read_bytes", "write_bytes"}
      /\ kind \in {"span_istream", "span_ostream", "memory_istream",
                   "fixed_memory_ostream"}
      /\ last.n > 0
      /\ last.pos0 + last.n > Len(last.buf0) ) =>
        /\ last.err = "buffer_exhausted"
        /\ pos = last.pos0
        /\ buf = last.buf0

\* C7: on a memory output backend over a resizable container a write of n
\* bytes at cursor p with p + n greater than the size succeeds, leaves the
\* buffer exactly p + n bytes long with the cursor at p + n, keeps every byte
\* that existed below p, and every byte between the old size and p is zero.
C7_Grows ==
    ( /\ last.op = "write_bytes"
      /\ kind = "memory_ostream"
      /\ last.pos0 + last.n > Len(last.buf0) ) =>
        /\ last.err = "none"
        /\ Len(buf) = last.pos0 + last.n
        /\ pos = last.pos0 + last.n
        /\ \A i \in 1..Len(last.buf0) : i <= last.pos0 => buf[i] = last.buf0[i]
        /\ \A i \in 1..last.pos0 : i > Len(last.buf0) => buf[i] = 0

\* a non-zero byte has been written one past the end of a buffer holding one
\* non-zero byte
C7_Witness ==
    /\ last.op = "write_bytes"
    /\ kind = "memory_ostream"
    /\ Len(last.buf0) = 1
    /\ last.buf0[1] # 0
    /\ last.pos0 = 2
    /\ last.src # <<>>
    /\ last.src[1] # 0
    /\ buf = <<last.buf0[1], 0, last.src[1]>>
    /\ pos = 3

\* C8: on the span and file backends, used directly or held in a wrapper, a
\* read_bytes or write_bytes of zero bytes raises no error and leaves the
\* cursor and the storage unchanged, for every cursor, also one past the end.
C8_ZeroLengthNoOp ==
    ( /\ last.op \in {"read_bytes", "write_bytes"}
      /\ last.n = 0
      /\ kind \in {"span_istream", "span_ostream", "file_istream",
                   "file_ostream"} ) =>
        /\ last.err = "none"
        /\ pos = last.pos0
        /\ buf = last.buf0

\* zero bytes have been written through a wrapper to a span_ostream whose
\* cursor is past the end of the span
C8_Witness ==
    /\ last.op = "write_bytes"
    /\ last.n = 0
    /\ kind = "span_ostream"
    /\ wrap = "any_ostream"
    /\ last.pos0 > Len(last.buf0)
    /\ last.err = "none"
    /\ pos = last.pos0

\* C9: on memory_istream and memory_ostream a read_bytes or write_bytes of
\* zero bytes is a no-op for every cursor, also one beyond the size of the
\* buffer: no error, and cursor, contents and size unchanged.
C9_MemoryZeroLengthNoOp ==
    ( /\ last.op \in {"read_bytes", "write_bytes"}
      /\ last.n = 0
      /\ kind \in {"memory_istream", "memory_ostream"} ) =>
        /\ last.err = "none"
        /\ pos = last.pos0
        /\ buf = last.buf0

\* C10: on a wrapper in the empty state a read_bytes or write_bytes of zero
\* bytes completes without error and the wrapper stays empty.
C10_EmptyZeroLengthNoOp ==
    ( /\ last.op \in {"read_bytes", "write_bytes"}
      /\ last.n = 0
      /\ kind = "none" ) =>
        last.err = "none"

(***************************************************************************)
(* Claims about the file backend                                           *)
(***************************************************************************)
\* C21: on file_istream a read of n > 0 bytes issued when fewer than n bytes
\* remain between the cursor and the end of the file, also after a seek far
\* past the end, fails with buffer_exhausted, and tell() after the failed
\* attempt equals tell() before it.
C21_FileShortRead ==
    ( /\ last.op = "read_bytes"
      /\ kind = "file_istream"
      /\ last.n > 0
      /\ last.pos0 + last.n > Len(last.buf0) ) =>
        /\ last.err = "buffer_exhausted"
        /\ pos = last.pos0

\* C21 without the bytes that a short read delivers: the read fails with
\* buffer_exhausted, and tell() is unchanged when no byte was left to read
C21_FileShortReadAtEnd ==
    ( /\ last.op = "read_bytes"
      /\ kind = "file_istream"
      /\ last.n > 0
      /\ last.pos0 + last.n > Len(last.buf0) ) =>
        /\ last.err = "buffer_exhausted"
        /\ last.pos0 >= Len(last.buf0) => pos = last.pos0
        /\ last.pos0 < Len(last.buf0) => pos = Len(last.buf0)

\* C22: on a file_ostream opened in write-append mode, after seek_absolute(p)
\* with p less than the size of the file, the next write_bytes stores its
\* bytes starting at offset p of the file, not at its end.
C22_AppendHonoursSeek ==
    [][ ( /\ last.op = "seek_absolute"
          /\ kind = "file_ostream"
          /\ fmode = "ab"
          /\ pos < Len(buf)
          /\ last'.op = "write_bytes"
          /\ last'.n > 0
          /\ last'.err = "none" ) =>
            \A i \in 1..last'.n : buf'[pos + i] = last'.src[i] ]_vars

\* the same of a file opened in write-truncate mode
C22_TruncateHonoursSeek ==
    [][ ( /\ last.op = "seek_absolute"
          /\ kind = "file_ostream"
          /\ fmode = "wb"
          /\ pos < Len(buf)
          /\ last'.op = "write_bytes"
          /\ last'.n > 0
          /\ last'.err = "none" ) =>
            \A i \in 1..last'.n : buf'[pos + i] = last'.src[i] ]_vars

\* the last call was open, on a stream or in a constructor
Opened == files.call.op \in {"open", "construct open"}

\* what the path of the last open named before the call
OpenedType == status(files.call.fs0, files.call.path)

\* the stream the last call was made on is open
DstOpen ==
    /\ files.streams[files.call.dst].alive
    /\ is_open(files.streams[files.call.dst].buffer)

\* C23: opening a file stream fails with std::system_error, never with
\* buffer_exhausted, whenever the path names something that is not a regular
\* file, whenever read mode is asked for a path that does not exist, and
\* whenever the open call of the operating system fails; opening for write
\* a path that does not exist creates the file and succeeds with is_open()
\* true, and write-truncate on an existing file leaves it empty.
C23_OpenOutcomes ==
    Opened =>
       /\ files.call.err \in {"none", "system_error"}
       /\ OpenedType \notin {"not_found", "regular"} =>
             files.call.err = "system_error"
       /\ (fmode = "rb" /\ OpenedType = "not_found") =>
             files.call.err = "system_error"
       /\ ~files.call.granted => files.call.err = "system_error"
       /\ ( /\ fmode \in {"wb", "ab"}
            /\ OpenedType = "not_found"
            /\ files.call.granted ) =>
             /\ files.call.err = "none"
             /\ files.fs = EmptyFile
             /\ DstOpen
       /\ (fmode = "wb" /\ OpenedType = "regular" /\ files.call.err = "none") =>
             /\ files.fs = EmptyFile
             /\ DstOpen

\* a file of one byte has been opened with write-truncate: the open has
\* succeeded, the stream is open and the file is empty
C23_Witness ==
    /\ Opened
    /\ fmode = "wb"
    /\ files.call.path = "file"
    /\ files.call.fs0 = [type |-> "regular", size |-> 1]
    /\ files.call.err = "none"
    /\ files.fs = EmptyFile
    /\ DstOpen

\* C30: open() on a file stream ends in one of two states: it succeeds and
\* is_open() is true with the newly opened handle, the handle held before
\* having been closed, or it fails with an error and is_open() is false; in
\* particular after a failed open() on a stream that was open the stream no
\* longer reports the old handle as open.
C30_OpenEndStates ==
    files.call.op = "open" =>
       /\ files.call.err = "none" =>
             /\ DstOpen
             /\ files.streams[files.call.dst].buffer > Len(files.call.closes0)
             /\ is_open(files.call.streams0[files.call.dst].buffer) =>
                   files.closes[files.call.streams0[files.call.dst].buffer] = 1
       /\ files.call.err # "none" => ~DstOpen

\* C30 for the opens that reach the open call of the operating system
C30_OpenEndStatesAfterFopen ==
    ( /\ files.call.op = "open"
      /\ OpenedType \in {"not_found", "regular"} ) =>
       /\ files.call.err = "none" =>
             /\ DstOpen
             /\ files.streams[files.call.dst].buffer > Len(files.call.closes0)
             /\ is_open(files.call.streams0[files.call.dst].buffer) =>
                   files.closes[files.call.streams0[files.call.dst].buffer] = 1
       /\ files.call.err # "none" =>
             /\ ~DstOpen
             /\ is_open(files.call.streams0[files.call.dst].buffer) =>
                   files.closes[files.call.streams0[files.call.dst].buffer] = 1

(***************************************************************************)
(* Claims about the order of the statements of a raw read or write         *)
(***************************************************************************)
\* a read_bytes or write_bytes of n > 0 bytes has passed its check
StepCall ==
    /\ \E op \in StepOps : last.op \in {Checked(op), Sought(op), <<op, "returned">>}
    /\ last.err = "none"
    /\ last.n > 0

\* the n bytes of the call are where the call is to put them
Transferred ==
    IF last.op[1] = "read_bytes"
    THEN last.dst = Range(last.buf0, last.pos0, last.n)
    ELSE /\ Len(buf) >= last.pos0 + last.n
         /\ \A i \in 1..last.n : buf[last.pos0 + i] = last.src[i]

\* C24: in read_bytes and write_bytes of the span and memory backends the
\* cursor is advanced only after the bytes have been copied: in every
\* intermediate state of the operation in which the cursor already shows
\* p + n, the n bytes have already been transferred.
C24_CursorAfterCopy ==
    (StepCall /\ pos = last.pos0 + last.n) => Transferred

\* C24 of the state in which the call returns
C24_CursorAndCopyAtReturn ==
    (StepCall /\ last.op[2] = "returned") =>
        /\ pos = last.pos0 + last.n
        /\ Transferred

\* the statements of a call, taken one by one, end where the call as a
\* whole ends
StepsAgree ==
    (\E op \in StepOps : last.op = <<op, "returned">>) =>
        LET r == WholeCall(kind, last.pos0, last.buf0, last.op[1], last.n, last.src)
        IN /\ pos = r.pos
           /\ buf = r.buf
           /\ last.err = r.err
           /\ last.dst = r.dst

(***************************************************************************)
(* Claims about what a write leaves alone                                  *)
(***************************************************************************)
\* the last call was a write_bytes of the span or memory output backend
\* that returned
WroteBytes ==
    /\ last.op = "write_bytes"
    /\ kind \in {"span_ostream", "memory_ostream", "fixed_memory_ostream"}
    /\ last.err = "none"

\* C25: a successful write of n bytes at cursor p on the span or memory
\* output backend sets bytes [p, p+n) of the storage to the source bytes,
\* leaves every other byte that existed unchanged and moves the cursor to
\* p + n; the extent of a span backend is the same after any seek or write,
\* successful or failed, and the size of a memory buffer never shrinks and
\* changes only when a write ends past its current size.
C25_WriteFrame ==
    /\ WroteBytes =>
         /\ last.n > 0 => Len(buf) >= last.pos0 + last.n
         /\ \A i \in 1..last.n : buf[last.pos0 + i] = last.src[i]
         /\ \A i \in 1..Len(last.buf0) :
               (i <= last.pos0 \/ i > last.pos0 + last.n) => buf[i] = last.buf0[i]
         /\ pos = last.pos0 + last.n
    /\ ( /\ kind = "span_ostream"
         /\ last.op \in {"seek_absolute", "seek_relative", "write_bytes"} ) =>
         Len(buf) = Len(last.buf0)
    /\ ( /\ kind \in {"memory_ostream", "fixed_memory_ostream"}
         /\ last.op \in {"seek_absolute", "seek_relative", "write_bytes"} ) =>
         /\ Len(buf) >= Len(last.buf0)
         /\ Len(buf) # Len(last.buf0) =>
               /\ last.op = "write_bytes"
               /\ last.pos0 + last.n > Len(last.buf0)

\* a byte has been written over the second of two bytes of a span, held in
\* a wrapper, and the first is as it was
C25_Witness ==
    /\ WroteBytes
    /\ kind = "span_ostream"
    /\ wrap = "any_ostream"
    /\ Len(last.buf0) = 2
    /\ last.pos0 = 1
    /\ last.n = 1
    /\ last.src[1] # last.buf0[2]
    /\ last.src[1] # last.buf0[1]
    /\ buf = <<last.buf0[1], last.src[1]>>
    /\ pos = 2

(***************************************************************************)
(* Claims about what a wrapper forwards                                    *)
(***************************************************************************)
\* the stream the wrapper holds, as get<C>() returns it for the type held
HeldStream == any.objs[dynamic_cast(any.stream, any.objs, kind)]

\* the last call gave the same on the wrapper as on the stream, and the
\* held stream is where the stream used directly is
SameAsDirect ==
    /\ any.call.wrapped = any.call.direct
    /\ any_stream_base_tell(any.stream, any.objs) = pos
    /\ HeldStream.pos = pos
    /\ HeldStream.buf = buf

\* C26: for every sequence of seek_absolute, seek_relative, tell, read_bytes
\* / write_bytes and batched read / write calls, applying it to a wrapper
\* holding backend B gives the same results, errors, final cursor and final
\* storage as applying it to B directly; at every point wrapper.tell()
\* equals the held backend's tell(), and the backend obtained with get<C>()
\* shows the cursor and storage produced by the preceding wrapper calls.
C26_WrapperForwards ==
    any.pc = "forward" => SameAsDirect

\* C26 for the sequences in which every batched call is given its byte
\* order, and for the wrappers whose default order is that of B
C26_WrapperForwardsInOneOrder ==
    (any.pc = "forward" /\ (~any.defaulted \/ any.endian = endian)) =>
        SameAsDirect

\* a 2-byte value has been read big-endian through a wrapper of a
\* span_istream, after a seek, and is the value read from the stream itself
C26_Witness ==
    /\ any.pc = "forward"
    /\ kind = "span_istream"
    /\ any.call.op = "read"
    /\ any.call.O = "big"
    /\ any.call.wrapped.err = "none"
    /\ Len(any.call.wrapped.out) = 1
    /\ any.call.wrapped.out[1] # reverse(any.call.wrapped.out[1], 2)
    /\ any.call.wrapped = any.call.direct
    /\ pos = 3
    /\ HeldStream.pos = 3

(***************************************************************************)
(* Claims about the bounds check                                           *)
(***************************************************************************)
\* the last call was a read or write of n > 0 bytes on a span or memory
\* backend that raised no error
PassedCheck ==
    /\ kind \in {"span_istream", "span_ostream", "memory_istream",
                 "memory_ostream", "fixed_memory_ostream"}
    /\ last.err = "none"
    /\ last.n > 0

\* C27: the bounds check of read_bytes(count) and write_bytes on the span
\* and memory backends is sound for every cursor and every count of the
\* size type: the fixed-width sum cursor + count never wraps around so as
\* to pass the check, so whenever no error is raised cursor + count <= size
\* holds in exact arithmetic and no view or copy extends beyond the storage.
C27_BoundsCheckSound ==
    ( /\ last.op \in {"read_bytes", "read_bytes_count", "write_bytes"}
      /\ PassedCheck ) =>
        /\ last.pos0 + last.n <= Len(buf)
        /\ last.view.off + last.view.len <= Len(buf)

\* C27 for the calls given a buffer, whose length is that of an object in
\* memory
C27_BoundsCheckSoundWithBuffer ==
    ( /\ last.op \in {"read_bytes", "write_bytes"}
      /\ PassedCheck ) =>
        /\ last.pos0 + last.n <= Len(buf)
        /\ last.view.off + last.view.len <= Len(buf)

(***************************************************************************)
(* Claims about the default orders of a wrapper and of the stream it holds *)
(***************************************************************************)
\* the stream the wrapper holds now
Held == any.objs[any.stream]

\* the bytes a typed call of the wrapper read or was to write
CallBytes ==
    LET size == SizeOf(TypesOf(any.call.args))
        b == IF any.call.op = "read" THEN any.call.held0.buf ELSE Held.buf
    IN SubSeq(b, any.call.held0.pos + 1, any.call.held0.pos + size)

\* C28: the default byte order of a wrapper and that of the backend it
\* holds are independent state: setting the wrapper's order leaves
\* get<C>().endian() unchanged and setting the held backend's order leaves
\* the wrapper's unchanged; typed reads and writes made through the wrapper
\* use the wrapper's order only; emplace() and reset() leave the wrapper's
\* default order as it was.
C28_OrdersIndependent ==
    any.pc = "orders" =>
       /\ any.call.op = "wrapper endian" =>
             /\ any.endian = any.call.O
             /\ has_value(any.stream) => Held.endian = any.call.held0.endian
       /\ any.call.op = "held endian" =>
             /\ Held.endian = any.call.O
             /\ any.endian = any.call.wrapper0
       /\ any.call.op \in {"read", "write"} =>
             /\ any.endian = any.call.wrapper0
             /\ Held.endian = any.call.held0.endian
       /\ (any.call.op = "read" /\ any.call.O = "-" /\ any.call.err = "none") =>
             any.call.out = do_read(CallBytes, any.call.wrapper0,
                                    TypesOf(any.call.args))
       /\ ( /\ any.call.op = "write" /\ any.call.O = "-"
            /\ any.call.err = "none"
            /\ ~(Held.type = "file_ostream" /\ fmode = "ab") ) =>
             CallBytes = ostream_write_buffer(any.call.wrapper0, any.call.args)
       /\ any.call.op \in {"emplace", "reset"} =>
             any.endian = any.call.wrapper0

\* a 2-byte value has been written without an order through a wrapper whose
\* order is not the native one and not that of the stream it holds, and its
\* bytes are in the wrapper's order
C28_Witness ==
    /\ any.pc = "orders"
    /\ any.call.op = "write"
    /\ any.call.O = "-"
    /\ any.call.err = "none"
    /\ any.call.wrapper0 # native
    /\ any.call.held0.endian = native
    /\ Held.type = "span_ostream"
    /\ TypesOf(any.call.args) = <<2>>
    /\ CallBytes = ostream_write_buffer(any.call.wrapper0, any.call.args)
    /\ CallBytes # ostream_write_buffer(native, any.call.args)

\* the wrapper's order, set to the one that is not native, is as it was
\* after an emplace
C28_KeptByEmplace ==
    /\ any.pc = "orders"
    /\ any.call.op = "emplace"
    /\ any.call.err = "none"
    /\ any.endian # native
    /\ Held.endian = native

(***************************************************************************)
(* Claims about an emplace whose stream cannot be constructed              *)
(***************************************************************************)
\* C29: when the construction of the new backend inside emplace<C>() fails
\* (a file backend whose open raises a system error), the error leaves the
\* call and the wrapper is exactly as before the call: it holds the same
\* backend, with the cursor, the storage and the order it had, or it is
\* empty as it was.
C29_FailedEmplace ==
    (any.pc = "orders" /\ any.call.op = "emplace" /\ any.call.err # "none") =>
       /\ any.call.err = "system_error"
       /\ any.stream = any.call.stream0
       /\ has_value(any.stream) => any.objs[any.stream] = any.call.held0
       /\ DOMAIN any.objs = IF has_value(any.stream) THEN {any.stream} ELSE {}
       /\ any.endian = any.call.wrapper0

\* an emplace of a file stream has failed on a wrapper that holds a stream
\* of another type whose cursor is not at the start, and holds it still
C29_Witness ==
    /\ any.pc = "orders"
    /\ any.call.op = "emplace"
    /\ any.call.err = "system_error"
    /\ has_value(any.stream)
    /\ any.objs[any.stream].type \notin FileKinds
    /\ any.objs[any.stream].pos > 0
    /\ Len(any.objs[any.stream].buf) > 0
    /\ any.objs[any.stream] = any.call.held0

\* an emplace has failed on a wrapper that was empty, and is empty still
C29_StillEmpty ==
    /\ any.pc = "orders"
    /\ any.call.op = "emplace"
    /\ any.call.err = "system_error"
    /\ ~has_value(any.stream)
    /\ any.call.stream0 = 0

=============================================================================
